---- MODULE Spec2Model ----
(***************************************************************************)
(* LACRM MCP server: the API client (client.ts, LacrmClient.call and       *)
(* LacrmClient.callWithFile) as a state machine.                           *)
(*                                                                         *)
(* An invocation of call / callWithFile is an async function: it runs      *)
(* synchronously up to its first await (the fetch), is resumed when the    *)
(* fetch settles, runs up to its second await (response.json()), and is    *)
(* resumed again when the body has been read.  Each of these code segments *)
(* is an operator returning the segment's effect; the actions apply the    *)
(* effects to the invocation's slot.  Several invocations are in flight at *)
(* once (one per slot) and interleave at the awaits.                       *)
(***************************************************************************)
EXTENDS Integers, Sequences, FiniteSets, Bags, TLC

VARIABLES
    now,        \* wall clock, seconds
    requests,   \* bag of the times at which an HTTP request was handed to fetch,
                \* restricted to the trailing WINDOW seconds
    pc,         \* per slot: "idle", "fetch" (awaiting fetch), "json" (awaiting response.json()), "done"
    method,     \* per slot: "call" or "callWithFile"
    response,   \* per slot: the Response fetch resolved with
    outcome,    \* per slot: how the promise returned by call / callWithFile settled
    fetches,    \* per slot: number of fetch() invocations made by the current invocation
    bodyRead,   \* per slot: response.json() has been invoked on the response
    fetchError, \* per slot: the error the awaited fetch rejected with
    atLimit,    \* per slot: the trailing window already held RATE_LIMIT requests
                \* when the invocation was issued
    environment,    \* process.env, the two config files and the JavaScript engine of the process
    mainPc,         \* main(): "start", "connect" (awaiting server.connect), "serving", "exited"
    config,         \* the Config loadConfig returned to main
    clientInstance, \* client.ts: the module's singleton, the API key it was built with
    registered,     \* registerAllTools has run
    transport,      \* the stdio transport: "none", "connecting", "connected", "failed"
    exitCode,       \* the code process.exit was called with
    log,            \* what the logger wrote to stderr, in order
    resources,      \* the resource URIs registered with the MCP server
    constructed,    \* the LacrmClient instances initializeClient has built, in order
    got,            \* what the latest getClient() call made outside a handler came to,
                    \* and the number of instances built before it
    toolPc,         \* the tool invocation: "idle", "awaiting" (the API call), "done"
    toolName,       \* the tool invoked
    toolArgs,       \* the arguments it was invoked with
    apiCalls,       \* the API requests the invocation has made, in order
    apiOutcome,     \* how the API call the invocation awaited settled
    fileReads,      \* the paths the invocation has passed to readFileSync, in order
    toolResult,     \* the result the invocation returned to the MCP client
    served,         \* the schema-tool invocations completed so far: tool, arguments,
                    \* API response and result
    uploadArgs,     \* the arguments callWithFile was invoked with
    httpRequest     \* the request callWithFile handed to fetch

clientVars == <<now, requests, pc, method, response, outcome, fetches, bodyRead, fetchError, atLimit>>
startupVars ==
    <<environment, mainPc, config, clientInstance, registered, transport, exitCode, log,
      resources, constructed, got>>
toolVars == <<toolPc, toolName, toolArgs, apiCalls, apiOutcome, fileReads, toolResult, served>>
uploadVars == <<uploadArgs, httpRequest>>
vars == <<clientVars, startupVars, toolVars, uploadVars>>

----------------------------------------------------------------------------
(* Documented rate limit: 120 requests per minute, sliding window. *)
RATE_LIMIT == 120
WINDOW == 60

(* Bounds of the model. *)
MaxCalls == 1        \* invocation slots in flight at once (classification runs)
MaxCallsRate == 2    \* invocation slots in flight at once (request-rate and burst runs)
MaxTime == 60        \* last clock value (classification runs)
MaxTimeRate == 60    \* last clock value (request-rate runs)
MaxRequests == 2     \* requests kept in the trailing window (classification runs)
MaxOver == 1         \* requests beyond RATE_LIMIT kept in the window (request-rate and burst runs)

TickStep == WINDOW \div 2

----------------------------------------------------------------------------
(* JSON values, as response.json() yields them. *)
JNull == [t |-> "null"]
JStr(s) == [t |-> "string", v |-> s]
JArr(s) == [t |-> "array", v |-> s]
JObj(r) == [t |-> "object", v |-> r]

(* JavaScript's truthiness, typeof and the in operator on a JSON value. *)
Undefined == [t |-> "undefined"]
JBool(b) == [t |-> "boolean", v |-> b]
JNum(n) == [t |-> "number", v |-> n]
Truthy(d) == /\ d.t # "null"
             /\ d.t # "undefined"
             /\ ~(d.t = "string" /\ d.v = "")
             /\ ~(d.t = "boolean" /\ ~d.v)
             /\ ~(d.t = "number" /\ d.v = 0)
TypeofObject(d) == d.t \in {"object", "array", "null"}
HasKey(d, k) == d.t = "object" /\ k \in DOMAIN d.v

(* The bodies the remote end sends. *)
BodyHtml == "<html>502 Bad Gateway</html>"
BodyNull == "null"
BodyString == "\"ok\""
BodyArray == "[{\"ContactId\":\"1\"}]"
BodyObject == "{\"ContactId\":\"789\"}"
BodyError == "{\"ErrorCode\":\"InvalidParameter\",\"ErrorDescription\":\"Name required\"}"
BodyErrorEmptyCode == "{\"ErrorCode\":\"\",\"ErrorDescription\":\"Unknown error\"}"

Bodies == {BodyHtml, BodyNull, BodyString, BodyArray, BodyObject, BodyError, BodyErrorEmptyCode}

SyntaxError == [name |-> "SyntaxError", message |-> "Unexpected token < in JSON at position 0"]

(* response.json(): the parsed value, or the SyntaxError it rejects with. *)
JsonParse(text) ==
    CASE text = BodyNull -> [ok |-> TRUE, value |-> JNull]
      [] text = BodyString -> [ok |-> TRUE, value |-> JStr("ok")]
      [] text = BodyArray -> [ok |-> TRUE, value |-> JArr(<<JObj([ContactId |-> JStr("1")])>>)]
      [] text = BodyObject -> [ok |-> TRUE, value |-> JObj([ContactId |-> JStr("789")])]
      [] text = BodyError ->
            [ok |-> TRUE,
             value |-> JObj([ErrorCode |-> JStr("InvalidParameter"),
                             ErrorDescription |-> JStr("Name required")])]
      [] text = BodyErrorEmptyCode ->
            [ok |-> TRUE,
             value |-> JObj([ErrorCode |-> JStr(""),
                             ErrorDescription |-> JStr("Unknown error")])]
      [] OTHER -> [ok |-> FALSE, error |-> SyntaxError]

Statuses == {200, 201, 401, 403, 404, 500}

StatusText(s) ==
    CASE s = 200 -> "OK"
      [] s = 201 -> "Created"
      [] s = 401 -> "Unauthorized"
      [] s = 403 -> "Forbidden"
      [] s = 404 -> "Not Found"
      [] s = 500 -> "Internal Server Error"

Responses == {[status |-> s, statusText |-> StatusText(s), body |-> b] : s \in Statuses, b \in Bodies}

(* The one response of the request-rate runs. *)
RateResponses == {[status |-> 200, statusText |-> StatusText(200), body |-> BodyArray]}

(* What fetch rejects with on a network-level failure. *)
FetchErrors == {[name |-> "TypeError", message |-> "fetch failed"],
                [name |-> "TypeError", message |-> "getaddrinfo ENOTFOUND api.lessannoyingcrm.com"]}

NoError == [name |-> "none", message |-> ""]

(* Response.ok *)
ResponseOk(r) == r.status >= 200 /\ r.status <= 299

NoResponse == [status |-> 0, statusText |-> "", body |-> ""]

----------------------------------------------------------------------------
(* errors.ts *)
AuthenticationError ==
    [name |-> "AuthenticationError",
     message |-> "Invalid or missing API key. Set LACRM_API_KEY environment variable."]

ApiError(code, message) == [name |-> "ApiError", code |-> code, message |-> message]

AuthenticationErrorOf(message) == [name |-> "AuthenticationError", message |-> message]

(* How the promise of an invocation settles. *)
Pending == [kind |-> "pending"]
Resolved(v) == [kind |-> "resolved", value |-> v]
Rejected(e) == [kind |-> "rejected", error |-> e]

(* The effect of one code segment of an invocation: where it suspends or     *)
(* ends, how its promise settles, whether it invoked fetch, whether it       *)
(* invoked response.json().                                                  *)
Effect(p, o, sent, read) == [pc |-> p, outcome |-> o, sent |-> sent, read |-> read]

----------------------------------------------------------------------------
(* client.ts, the body-shape test `data && typeof data === 'object' &&      *)
(* 'ErrorCode' in data`.                                                     *)

(* Variant: tests the value of data.ErrorCode instead of the key. *)
IsErrorBody_byValue(d) ==
    Truthy(d) /\ TypeofObject(d) /\ HasKey(d, "ErrorCode") /\ Truthy(d.v.ErrorCode)

IsErrorBody(d) == Truthy(d) /\ TypeofObject(d) /\ HasKey(d, "ErrorCode")

(* new ApiError(errorData.ErrorCode, errorData.ErrorDescription) *)
ErrorOfBody(d) == ApiError(d.v.ErrorCode.v, d.v.ErrorDescription.v)

(* Variant: a fixed code, the status dropped. *)
HttpError_fixedCode(r) ==
    ApiError("HTTP_ERROR", "HTTP error: " \o ToString(r.status) \o " " \o r.statusText)

(* new ApiError(`HTTP_${response.status}`,                                   *)
(*              `HTTP error: ${response.status} ${response.statusText}`)     *)
HttpError(r) ==
    ApiError("HTTP_" \o ToString(r.status),
             "HTTP error: " \o ToString(r.status) \o " " \o r.statusText)

(* LacrmClient.call, up to the awaited fetch: build the body, log, hand the  *)
(* request to fetch.  The parameters are the JSON values a tool handler      *)
(* built from its validated arguments, so JSON.stringify does not throw.     *)
call_start == Effect("fetch", Pending, TRUE, FALSE)

(* Variant: a failed fetch is tried again. *)
call_fetchRejected_retry(e) == Effect("fetch", Pending, TRUE, FALSE)

(* LacrmClient.call: the awaited fetch rejects with e; nothing catches it. *)
call_fetchRejected(e) == Effect("done", Rejected(e), FALSE, FALSE)

(* Variant: 401 and 403 are handled like any other status, the body read. *)
call_fetchResolved_noAuthCheck(r) == Effect("json", Pending, FALSE, TRUE)

(* LacrmClient.call: fetch resolved with r; run to the throw or to the       *)
(* awaited response.json().                                                  *)
call_fetchResolved(r) ==
    IF ~ResponseOk(r)
    THEN IF r.status = 401 \/ r.status = 403
         THEN Effect("done", Rejected(AuthenticationError), FALSE, FALSE)
         ELSE Effect("json", Pending, FALSE, TRUE)
    ELSE Effect("json", Pending, FALSE, TRUE)

(* Variant: the body of a response that is not ok is not looked at. *)
call_errorResponse_bodyIgnored(r, p) ==
    Effect("done", Rejected(HttpError(r)), FALSE, FALSE)

(* LacrmClient.call, response not ok: response.json() settled with p. *)
call_errorResponse(r, p) ==
    IF ~p.ok
    THEN Effect("done", Rejected(HttpError(r)), FALSE, FALSE)
    ELSE IF IsErrorBody(p.value)
         THEN Effect("done", Rejected(ErrorOfBody(p.value)), FALSE, FALSE)
         ELSE Effect("done", Rejected(HttpError(r)), FALSE, FALSE)

(* Variant: the success payload is unwrapped from a Result field. *)
call_okResponse_unwrap(p) ==
    IF ~p.ok
    THEN Effect("done", Rejected(p.error), FALSE, FALSE)
    ELSE IF IsErrorBody(p.value)
         THEN Effect("done", Rejected(ErrorOfBody(p.value)), FALSE, FALSE)
         ELSE Effect("done",
                     Resolved(IF HasKey(p.value, "Result") THEN p.value.v.Result
                                                           ELSE [t |-> "undefined"]),
                     FALSE, FALSE)

(* Variant: a body that does not parse is reported as an ApiError. *)
call_okResponse_wrapParseError(p) ==
    IF ~p.ok
    THEN Effect("done", Rejected(ApiError("PARSE_ERROR", p.error.message)), FALSE, FALSE)
    ELSE IF IsErrorBody(p.value)
         THEN Effect("done", Rejected(ErrorOfBody(p.value)), FALSE, FALSE)
         ELSE Effect("done", Resolved(p.value), FALSE, FALSE)

(* LacrmClient.call, response ok: response.json() settled with p; a         *)
(* rejection of the awaited response.json() is not caught.                   *)
call_okResponse(p) ==
    IF ~p.ok
    THEN Effect("done", Rejected(p.error), FALSE, FALSE)
    ELSE IF IsErrorBody(p.value)
         THEN Effect("done", Rejected(ErrorOfBody(p.value)), FALSE, FALSE)
         ELSE Effect("done", Resolved(p.value), FALSE, FALSE)

(* LacrmClient.callWithFile, up to the awaited fetch: build the form data,   *)
(* log, hand the request to fetch.                                           *)
callWithFile_start == Effect("fetch", Pending, TRUE, FALSE)

(* LacrmClient.callWithFile: the awaited fetch rejects with e. *)
callWithFile_fetchRejected(e) == Effect("done", Rejected(e), FALSE, FALSE)

(* LacrmClient.callWithFile: fetch resolved with r. *)
callWithFile_fetchResolved(r) ==
    IF ~ResponseOk(r)
    THEN IF r.status = 401 \/ r.status = 403
         THEN Effect("done", Rejected(AuthenticationError), FALSE, FALSE)
         ELSE Effect("json", Pending, FALSE, TRUE)
    ELSE Effect("json", Pending, FALSE, TRUE)

(* LacrmClient.callWithFile, response not ok: response.json() settled with p. *)
callWithFile_errorResponse(r, p) ==
    IF ~p.ok
    THEN Effect("done", Rejected(HttpError(r)), FALSE, FALSE)
    ELSE IF IsErrorBody(p.value)
         THEN Effect("done", Rejected(ErrorOfBody(p.value)), FALSE, FALSE)
         ELSE Effect("done", Rejected(HttpError(r)), FALSE, FALSE)

(* Variant: callWithFile does not look for an error body in an ok response. *)
callWithFile_okResponse_lenient(p) ==
    IF ~p.ok
    THEN Effect("done", Rejected(p.error), FALSE, FALSE)
    ELSE Effect("done", Resolved(p.value), FALSE, FALSE)

(* LacrmClient.callWithFile, response ok: response.json() settled with p. *)
callWithFile_okResponse(p) ==
    IF ~p.ok
    THEN Effect("done", Rejected(p.error), FALSE, FALSE)
    ELSE IF IsErrorBody(p.value)
         THEN Effect("done", Rejected(ErrorOfBody(p.value)), FALSE, FALSE)
         ELSE Effect("done", Resolved(p.value), FALSE, FALSE)

----------------------------------------------------------------------------
Slots == DOMAIN pc

(* Number of requests handed to fetch in the trailing WINDOW seconds. *)
InWindow == BagCardinality(requests)

(* Apply a segment's effect to slot i; f0 and b0 are the invocation's fetch  *)
(* count and body-read flag before the segment.                              *)
Run(i, eff, f0, b0) ==
    /\ pc' = [pc EXCEPT ![i] = eff.pc]
    /\ outcome' = [outcome EXCEPT ![i] = eff.outcome]
    /\ fetches' = [fetches EXCEPT ![i] = f0 + (IF eff.sent THEN 1 ELSE 0)]
    /\ requests' = IF eff.sent THEN requests (+) SetToBag({now}) ELSE requests
    /\ bodyRead' = [bodyRead EXCEPT ![i] = b0 \/ eff.read]

(* Variant: an invocation issued while the window holds RATE_LIMIT requests  *)
(* is turned away.                                                           *)
call_rejectAtLimit(i, cap) ==
    /\ pc[i] \in {"idle", "done"}
    /\ InWindow < cap
    /\ method' = [method EXCEPT ![i] = "call"]
    /\ response' = [response EXCEPT ![i] = NoResponse]
    /\ fetchError' = [fetchError EXCEPT ![i] = NoError]
    /\ atLimit' = [atLimit EXCEPT ![i] = InWindow >= RATE_LIMIT]
    /\ Run(i, IF InWindow >= RATE_LIMIT
              THEN Effect("done", Rejected(ApiError("RATE_LIMITED", "Too many requests")),
                          FALSE, FALSE)
              ELSE call_start,
           0, FALSE)
    /\ UNCHANGED now

(* A caller invokes client.call(...) in slot i: the first segment of call    *)
(* runs at once.                                                             *)
call(i, cap) ==
    /\ pc[i] \in {"idle", "done"}
    /\ InWindow < cap
    /\ method' = [method EXCEPT ![i] = "call"]
    /\ response' = [response EXCEPT ![i] = NoResponse]
    /\ fetchError' = [fetchError EXCEPT ![i] = NoError]
    /\ atLimit' = [atLimit EXCEPT ![i] = InWindow >= RATE_LIMIT]
    /\ Run(i, call_start, 0, FALSE)
    /\ UNCHANGED now

(* A caller invokes client.callWithFile(...) in slot i. *)
callWithFile(i, cap) ==
    /\ pc[i] \in {"idle", "done"}
    /\ InWindow < cap
    /\ method' = [method EXCEPT ![i] = "callWithFile"]
    /\ response' = [response EXCEPT ![i] = NoResponse]
    /\ fetchError' = [fetchError EXCEPT ![i] = NoError]
    /\ atLimit' = [atLimit EXCEPT ![i] = InWindow >= RATE_LIMIT]
    /\ Run(i, callWithFile_start, 0, FALSE)
    /\ UNCHANGED now

(* The fetch of slot i resolves with response r. *)
fetchResolves(i, r) ==
    /\ pc[i] = "fetch"
    /\ response' = [response EXCEPT ![i] = r]
    /\ Run(i, IF method[i] = "call" THEN call_fetchResolved(r)
                                    ELSE callWithFile_fetchResolved(r),
           fetches[i], bodyRead[i])
    /\ UNCHANGED <<now, method, fetchError, atLimit>>

(* The fetch of slot i rejects with e (connection refused, DNS failure). *)
fetchRejects(i, e) ==
    /\ pc[i] = "fetch"
    /\ fetchError' = [fetchError EXCEPT ![i] = e]
    /\ Run(i, IF method[i] = "call" THEN call_fetchRejected(e)
                                    ELSE callWithFile_fetchRejected(e),
           fetches[i], bodyRead[i])
    /\ UNCHANGED <<now, method, response, atLimit>>

(* response.json() of slot i settles. *)
jsonSettles(i) ==
    /\ pc[i] = "json"
    /\ Run(i, IF method[i] = "call"
              THEN IF ~ResponseOk(response[i])
                   THEN call_errorResponse(response[i], JsonParse(response[i].body))
                   ELSE call_okResponse(JsonParse(response[i].body))
              ELSE IF ~ResponseOk(response[i])
                   THEN callWithFile_errorResponse(response[i], JsonParse(response[i].body))
                   ELSE callWithFile_okResponse(JsonParse(response[i].body)),
           fetches[i], bodyRead[i])
    /\ UNCHANGED <<now, method, response, fetchError, atLimit>>

(* Time passes; requests older than WINDOW leave the trailing window. *)
Tick(maxT) ==
    /\ now + TickStep <= maxT
    /\ now' = now + TickStep
    /\ requests' = [t \in {u \in DOMAIN requests : now' - u < WINDOW} |-> requests[t]]
    /\ UNCHANGED <<pc, method, response, outcome, fetches, bodyRead, fetchError, atLimit>>

----------------------------------------------------------------------------
(* Startup: config.ts (loadConfigFile, loadConfig), logger.ts, index.ts      *)
(* (main) and the client singleton of client.ts.                             *)

(* API keys, and the first character of each (what a JSON parser names as    *)
(* the unexpected token when a key stands unquoted in a config file).        *)
Keys == {"abc-111", "xyz-999"}
FirstChar(k) == CASE k = "abc-111" -> "a"
                  [] k = "xyz-999" -> "x"
                  [] OTHER -> ""

(* The JSON.parse of the process: V8 up to 10.x words a syntax error by      *)
(* token and position, V8 from 11.x on quotes the source text.               *)
Engines == {"v8-position", "v8-snippet"}

(* What a config file holds.  shape: "apiKey" {"apiKey":"<key>"},            *)
(* "emptyObject" {}, "null" null, "bareValue" {"apiKey": <key>} (the value   *)
(* unquoted), "bareName" {apiKey: "<key>"} (the name unquoted).              *)
FileText(c) ==
    CASE c.shape = "apiKey" -> "{\"apiKey\":\"" \o c.key \o "\"}"
      [] c.shape = "emptyObject" -> "{}"
      [] c.shape = "null" -> "null"
      [] c.shape = "bareValue" -> "{\"apiKey\": " \o c.key \o "}"
      [] c.shape = "bareName" -> "{apiKey: \"" \o c.key \o "\"}"

Contents ==
    [shape : {"apiKey"}, key : Keys \cup {""}]
    \cup [shape : {"emptyObject", "null"}, key : {""}]
    \cup [shape : {"bareValue", "bareName"}, key : Keys]

(* A config file on disk: absent, present and not readable, or readable. *)
NoFile == [exists |-> FALSE]
Unreadable == [exists |-> TRUE, readable |-> FALSE]
FileOf(c) == [exists |-> TRUE, readable |-> TRUE, content |-> c]
Files == {NoFile, Unreadable} \cup {FileOf(c) : c \in Contents}

(* process.env.LACRM_API_KEY: not set, set to the empty string, set to a key. *)
EnvValues == {Undefined, JStr("")} \cup {JStr(k) : k \in Keys}

Environments ==
    [LACRM_API_KEY : EnvValues, DEBUG : BOOLEAN, home : Files, local : Files,
     engine : Engines]

HomeConfigPath == "~/.lacrm-config.json"
LocalConfigPath == "./.lacrm-config.json"
FileAt(e, path) == IF path = HomeConfigPath THEN e.home ELSE e.local

(* JSON.parse(content) of config.ts: the value, or the SyntaxError thrown. *)
ParseError(message) == [name |-> "SyntaxError", message |-> message]
JSON_parse(c, engine) ==
    CASE c.shape = "apiKey" -> [ok |-> TRUE, value |-> JObj([apiKey |-> JStr(c.key)])]
      [] c.shape = "emptyObject" -> [ok |-> TRUE, value |-> JObj(<<>>)]
      [] c.shape = "null" -> [ok |-> TRUE, value |-> JNull]
      [] c.shape = "bareValue" ->
            [ok |-> FALSE,
             error |-> ParseError(
                IF engine = "v8-position"
                THEN "Unexpected token " \o FirstChar(c.key) \o " in JSON at position 11"
                ELSE "Unexpected token '" \o FirstChar(c.key) \o "', \"" \o FileText(c)
                         \o "\" is not valid JSON")]
      [] c.shape = "bareName" ->
            [ok |-> FALSE,
             error |-> ParseError(
                IF engine = "v8-position"
                THEN "Unexpected token a in JSON at position 1"
                ELSE "Expected property name or '}' in JSON at position 1")]

(* readFileSync(path, 'utf-8') on a file that cannot be read. *)
ReadError(path) ==
    [name |-> "Error", message |-> "EACCES: permission denied, open '" \o path \o "'"]

(* logger.ts: one line on stderr; console.error prints an Error as its name *)
(* and message.                                                             *)
LogLine(level, msg, data) == [level |-> level, msg |-> msg, data |-> data]
ErrorText(err) == err.name \o ": " \o err.message
logger_info(msg) == <<LogLine("INFO", msg, "")>>
logger_warn(msg, err) == <<LogLine("WARN", msg, ErrorText(err))>>
logger_error(msg, err) == <<LogLine("ERROR", msg, ErrorText(err))>>
logger_debug(e, msg) == IF e.DEBUG THEN <<LogLine("DEBUG", msg, "")>> ELSE <<>>

(* config?.apiKey *)
OptionalApiKey(d) ==
    IF d.t \in {"null", "undefined"} THEN Undefined
    ELSE IF HasKey(d, "apiKey") THEN d.v.apiKey ELSE Undefined

(* loadConfigFile(path): the parsed file or null, and what it logged. *)
loadConfigFile(e, path) ==
    LET f == FileAt(e, path) IN
    IF ~f.exists THEN [config |-> JNull, log |-> <<>>]
    ELSE IF ~f.readable
         THEN [config |-> JNull,
               log |-> logger_warn("Failed to load config from " \o path, ReadError(path))]
         ELSE LET p == JSON_parse(f.content, e.engine) IN
              IF p.ok
              THEN [config |-> p.value,
                    log |-> logger_debug(e, "Loaded config from " \o path)]
              ELSE [config |-> JNull,
                    log |-> logger_warn("Failed to load config from " \o path, p.error)]

NoApiKeyFound ==
    AuthenticationErrorOf("No API key found. Set LACRM_API_KEY environment variable or create a config file at ~/.lacrm-config.json with {\"apiKey\": \"your-key\"}")

(* Variant: the home config file is consulted before the environment. *)
loadConfig_homeFirst(e) ==
    LET home == loadConfigFile(e, HomeConfigPath) IN
    IF Truthy(OptionalApiKey(home.config))
    THEN [ok |-> TRUE, config |-> [apiKey |-> OptionalApiKey(home.config).v],
          log |-> home.log]
    ELSE IF Truthy(e.LACRM_API_KEY)
         THEN [ok |-> TRUE, config |-> [apiKey |-> e.LACRM_API_KEY.v], log |-> home.log]
         ELSE [ok |-> FALSE, error |-> NoApiKeyFound, log |-> home.log]

(* loadConfig(): the Config returned or the error thrown, and what was      *)
(* logged on the way.                                                       *)
loadConfig(e) ==
    IF Truthy(e.LACRM_API_KEY)
    THEN [ok |-> TRUE, config |-> [apiKey |-> e.LACRM_API_KEY.v],
          log |-> logger_debug(e, "Using API key from LACRM_API_KEY environment variable")]
    ELSE LET home == loadConfigFile(e, HomeConfigPath) IN
         IF Truthy(OptionalApiKey(home.config))
         THEN [ok |-> TRUE, config |-> [apiKey |-> OptionalApiKey(home.config).v],
               log |-> home.log]
         ELSE LET local == loadConfigFile(e, LocalConfigPath) IN
              IF Truthy(OptionalApiKey(local.config))
              THEN [ok |-> TRUE, config |-> [apiKey |-> OptionalApiKey(local.config).v],
                    log |-> home.log \o local.log]
              ELSE [ok |-> FALSE, error |-> NoApiKeyFound, log |-> home.log \o local.log]

(* client.ts: the singleton before initializeClient, initializeClient and  *)
(* getClient.                                                               *)
NoClient == JNull
initializeClient(apiKey) == [apiKey |-> apiKey]
(* Variant: getClient hands out whatever the singleton holds. *)
getClient_unchecked(instance) == [ok |-> TRUE, client |-> instance]

getClient(instance) ==
    IF instance = NoClient
    THEN [ok |-> FALSE,
          error |-> AuthenticationErrorOf("Client not initialized. Call initializeClient first.")]
    ELSE [ok |-> TRUE, client |-> instance]

NotCalled == [called |-> FALSE]

(* new McpServer(...), registerAllTools(server) of tools/index.ts, which    *)
(* calls the register functions of the tool modules, and registerResources  *)
(* of resources/index.ts, which nothing calls.                              *)
McpServer == [tools |-> FALSE, resources |-> {}]
registerAllTools(server) == [server EXCEPT !.tools = TRUE]
WorkflowResources ==
    {"lacrm://workflows/overview", "lacrm://workflows/contacts",
     "lacrm://workflows/pipeline-items"}
registerResources(server) ==
    [server EXCEPT !.resources = server.resources \cup WorkflowResources]

NoConfig == [loaded |-> FALSE]
NoExit == -1

(* Variant: a failure of loadConfig is logged and startup carries on. *)
main_start_carryOn(e) ==
    LET c == loadConfig(e) IN
    [pc |-> "connect",
     config |-> IF c.ok THEN c.config ELSE NoConfig,
     clientInstance |-> initializeClient(IF c.ok THEN c.config.apiKey ELSE ""),
     constructed |-> <<initializeClient(IF c.ok THEN c.config.apiKey ELSE "")>>,
     registered |-> registerAllTools(McpServer).tools,
     resources |-> registerAllTools(McpServer).resources,
     transport |-> "connecting",
     exitCode |-> NoExit,
     log |-> c.log \o logger_info("Configuration loaded")
                   \o logger_info("API client initialized")
                   \o logger_info("Tools registered")]

(* Variant: main goes on to register and connect without initializeClient. *)
main_start_skipClient(e) ==
    LET c == loadConfig(e) IN
    IF c.ok
    THEN [pc |-> "connect",
          config |-> c.config,
          clientInstance |-> NoClient,
          constructed |-> <<>>,
          registered |-> registerAllTools(McpServer).tools,
          resources |-> registerAllTools(McpServer).resources,
          transport |-> "connecting",
          exitCode |-> NoExit,
          log |-> c.log \o logger_info("Configuration loaded")
                        \o logger_info("Tools registered")]
    ELSE [pc |-> "exited",
          config |-> NoConfig,
          clientInstance |-> NoClient,
          constructed |-> <<>>,
          registered |-> FALSE,
          resources |-> {},
          transport |-> "none",
          exitCode |-> 1,
          log |-> c.log \o logger_error("Failed to start server", c.error)]

(* main(), up to the awaited server.connect(transport) or, when loadConfig  *)
(* throws, through the catch to process.exit(1).                            *)
main_start(e) ==
    LET c == loadConfig(e) IN
    IF c.ok
    THEN [pc |-> "connect",
          config |-> c.config,
          clientInstance |-> initializeClient(c.config.apiKey),
          constructed |-> <<initializeClient(c.config.apiKey)>>,
          registered |-> registerAllTools(McpServer).tools,
          resources |-> registerAllTools(McpServer).resources,
          transport |-> "connecting",
          exitCode |-> NoExit,
          log |-> c.log \o logger_info("Configuration loaded")
                        \o logger_info("API client initialized")
                        \o logger_info("Tools registered")]
    ELSE [pc |-> "exited",
          config |-> NoConfig,
          clientInstance |-> NoClient,
          constructed |-> <<>>,
          registered |-> FALSE,
          resources |-> {},
          transport |-> "none",
          exitCode |-> 1,
          log |-> c.log \o logger_error("Failed to start server", c.error)]

ConnectErrors == {[name |-> "Error", message |-> "Already connected to a transport"]}

(* The process starts: main() runs to its first await or to process.exit. *)
mainStarts ==
    /\ mainPc = "start"
    /\ LET m == main_start(environment) IN
        /\ mainPc' = m.pc
        /\ config' = m.config
        /\ clientInstance' = m.clientInstance
        /\ registered' = m.registered
        /\ resources' = m.resources
        /\ constructed' = constructed \o m.constructed
        /\ transport' = m.transport
        /\ exitCode' = m.exitCode
        /\ log' = log \o m.log
    /\ UNCHANGED <<environment, got, clientVars, toolVars, uploadVars>>

(* server.connect(transport) resolves: main logs and returns, the server    *)
(* serves.                                                                  *)
connectResolves ==
    /\ mainPc = "connect"
    /\ mainPc' = "serving"
    /\ transport' = "connected"
    /\ log' = log \o logger_info("LACRM MCP server started")
    /\ UNCHANGED <<environment, config, clientInstance, registered, exitCode, resources,
                   constructed, got, clientVars, toolVars, uploadVars>>

(* server.connect(transport) rejects with err: the catch of main. *)
connectRejects(err) ==
    /\ mainPc = "connect"
    /\ mainPc' = "exited"
    /\ transport' = "failed"
    /\ exitCode' = 1
    /\ log' = log \o logger_error("Failed to start server", err)
    /\ UNCHANGED <<environment, config, clientInstance, registered, resources, constructed,
                   got, clientVars, toolVars, uploadVars>>

(* The process before main() has run, in environment e. *)
ProcessStart(e) ==
    /\ environment = e
    /\ mainPc = "start"
    /\ config = NoConfig
    /\ clientInstance = NoClient
    /\ registered = FALSE
    /\ transport = "none"
    /\ exitCode = NoExit
    /\ log = <<>>
    /\ resources = {}
    /\ constructed = <<>>
    /\ got = NotCalled

(* The server once started with a key in the environment and serving. *)
ServingEnvironment ==
    [LACRM_API_KEY |-> JStr("abc-111"), DEBUG |-> FALSE, home |-> NoFile,
     local |-> NoFile, engine |-> "v8-snippet"]
Serving ==
    /\ environment = ServingEnvironment
    /\ mainPc = "serving"
    /\ config = main_start(ServingEnvironment).config
    /\ clientInstance = main_start(ServingEnvironment).clientInstance
    /\ registered = TRUE
    /\ transport = "connected"
    /\ exitCode = NoExit
    /\ log = main_start(ServingEnvironment).log \o logger_info("LACRM MCP server started")
    /\ resources = main_start(ServingEnvironment).resources
    /\ constructed = main_start(ServingEnvironment).constructed
    /\ got = NotCalled

(* client.ts as a module: initializeClient(apiKey) and getClient() called   *)
(* by any importer, in any order.                                           *)
MaxInitializations == 3
SingletonKeys == Keys \cup {""}

initializeClientCalled(apiKey) ==
    /\ Len(constructed) < MaxInitializations
    /\ clientInstance' = initializeClient(apiKey)
    /\ constructed' = Append(constructed, initializeClient(apiKey))
    /\ UNCHANGED <<environment, mainPc, config, registered, transport, exitCode, log,
                   resources, got, clientVars, toolVars, uploadVars>>

getClientCalled ==
    /\ got' = [called |-> TRUE, after |-> Len(constructed), result |-> getClient(clientInstance)]
    /\ UNCHANGED <<environment, mainPc, config, clientInstance, registered, transport,
                   exitCode, log, resources, constructed, clientVars, toolVars, uploadVars>>

----------------------------------------------------------------------------
(* tools/discovery/index.ts: field descriptors and the schema composer.     *)
(* A descriptor here carries name, required, type, is_custom_field,         *)
(* field_id and valid_options; the input_format and description texts are   *)
(* left out.                                                                *)

FixedField(name, required, type) ==
    [name |-> name, required |-> required, type |-> type, is_custom_field |-> FALSE]

CONTACT_FIXED_FIELDS ==
    << FixedField("name", TRUE, "Text"), FixedField("assigned_to", TRUE, "Uid"),
       FixedField("email", FALSE, "Array"), FixedField("phone", FALSE, "Array"),
       FixedField("company_name", FALSE, "Text"), FixedField("job_title", FALSE, "Text"),
       FixedField("address", FALSE, "Array"), FixedField("website", FALSE, "Array"),
       FixedField("background_info", FALSE, "Text"), FixedField("birthday", FALSE, "Date") >>

COMPANY_FIXED_FIELDS ==
    << FixedField("name", TRUE, "Text"), FixedField("assigned_to", TRUE, "Uid"),
       FixedField("email", FALSE, "Array"), FixedField("phone", FALSE, "Array"),
       FixedField("address", FALSE, "Array"), FixedField("website", FALSE, "Array"),
       FixedField("background_info", FALSE, "Text") >>

PIPELINE_ITEM_FIXED_FIELDS ==
    << FixedField("contact_id", TRUE, "Uid"), FixedField("pipeline_id", TRUE, "Uid"),
       FixedField("status_id", TRUE, "Uid"), FixedField("note", FALSE, "Text") >>

(* The custom fields GetCustomFields returns (CustomFieldDetail).  A key    *)
(* the response leaves out reads as undefined.                              *)
CustomFieldDetail(id, type, isRequired, options) ==
    [CustomFieldId |-> id, Name |-> "Field" \o id, Type |-> type,
     IsRequired |-> isRequired, Options |-> options]

(* Options as the API sends them: plain strings or {Value}, {Name},         *)
(* {OptionId} records.                                                      *)
SomeOptions ==
    JArr(<< JStr("Red"), JObj([Value |-> JStr("Green")]), JObj([Name |-> JStr("Blue")]),
            JObj([OptionId |-> JStr("7")]) >>)
OptionLists == {Undefined, JArr(<<>>), SomeOptions}
FieldTypes == {"Text", "Dropdown"}
ChoiceTypes == {"Dropdown", "RadioList", "Checkbox"}
RequiredFlags == {Undefined, JBool(FALSE), JBool(TRUE)}
CustomFields ==
    { CustomFieldDetail(IF t = "Text" THEN "1" ELSE "2", t, r, o) :
        t \in FieldTypes, r \in RequiredFlags, o \in OptionLists }

(* typeof opt === 'string' ? opt : (opt.Value || opt.Name || String(opt)) *)
OptionText(opt) ==
    IF opt.t = "string" THEN opt.v
    ELSE IF HasKey(opt, "Value") /\ Truthy(opt.v.Value) THEN opt.v.Value.v
    ELSE IF HasKey(opt, "Name") /\ Truthy(opt.v.Name) THEN opt.v.Name.v
    ELSE "[object Object]"

MapOptions(options) == [i \in DOMAIN options.v |-> OptionText(options.v[i])]

(* JSON.stringify of a descriptor leaves out a valid_options that is        *)
(* undefined.                                                               *)
WithValidOptions(d, validOptions) ==
    IF validOptions = Undefined THEN d
    ELSE [k \in DOMAIN d \cup {"valid_options"} |->
            IF k = "valid_options" THEN validOptions.v ELSE d[k]]

(* formatCustomFieldForAI: the descriptor of get_custom_fields and          *)
(* get_pipeline_custom_fields.                                              *)
formatCustomFieldForAI(field) ==
    WithValidOptions(
        [name |-> field.Name, field_id |-> field.CustomFieldId, type |-> field.Type,
         required |-> Truthy(field.IsRequired)],
        IF Truthy(field.Options) /\ Len(field.Options.v) > 0
        THEN JArr(MapOptions(field.Options)) ELSE Undefined)

(* The descriptor the schema tools build for a custom field;                *)
(* valid_options: field.Options?.map(...).                                  *)
SchemaFieldOf(field) ==
    WithValidOptions(
        [name |-> field.Name, required |-> Truthy(field.IsRequired), type |-> field.Type,
         is_custom_field |-> TRUE, field_id |-> field.CustomFieldId],
        IF field.Options.t \in {"undefined", "null"} THEN Undefined
        ELSE JArr(MapOptions(field.Options)))

(* Array.isArray(result) ? result : (result.Results || []); reading         *)
(* .Results of null throws a TypeError.                                     *)
NullResultError ==
    [name |-> "TypeError", message |-> "Cannot read properties of null (reading 'Results')"]
FieldsOf(result) ==
    IF result.t = "array" THEN [ok |-> TRUE, fields |-> result.v]
    ELSE IF result.t = "null" THEN [ok |-> FALSE, error |-> NullResultError]
    ELSE IF HasKey(result, "Results") /\ Truthy(result.v.Results)
         THEN [ok |-> TRUE, fields |-> result.v.Results.v]
         ELSE [ok |-> TRUE, fields |-> <<>>]

IsRequiredField(d) == d.required
IsOptionalField(d) == ~d.required
MapFields(fields, Op(_)) == [i \in DOMAIN fields |-> Op(fields[i])]

----------------------------------------------------------------------------
(* Tool results, errors.ts formatErrorForLLM.                                *)

ErrorResult(text) == [isError |-> TRUE, text |-> text]
JsonResult(output) == [isError |-> FALSE, json |-> output]
NoResult == [pending |-> TRUE]
NoRequest == [sent |-> FALSE]

(* Variant: an authentication failure is reported with an empty message. *)
formatErrorForLLM_silentAuth(error) ==
    IF error.name = "AuthenticationError" THEN ""
    ELSE IF error.name = "ApiError"
         THEN "API error (" \o error.code \o "): " \o error.message
         ELSE "Error: " \o error.message

formatErrorForLLM(error) ==
    IF error.name = "AuthenticationError"
    THEN "Authentication failed. Ensure LACRM_API_KEY is set correctly in your environment."
    ELSE IF error.name = "NotFoundError" THEN error.message
    ELSE IF error.name = "ValidationError" THEN "Validation error: " \o error.message
    ELSE IF error.name = "ApiError"
         THEN "API error (" \o error.code \o "): " \o error.message
    ELSE IF "message" \in DOMAIN error THEN "Error: " \o error.message
    ELSE "An unexpected error occurred."

----------------------------------------------------------------------------
(* The schema tools and the custom-field tools of tools/discovery/index.ts. *)

Tools == {"get_contact", "get_custom_fields", "get_pipeline_custom_fields",
          "get_contact_schema", "get_company_schema", "get_pipeline_item_schema",
          "create_file"}
SchemaTools == {"get_contact_schema", "get_company_schema", "get_pipeline_item_schema"}
CustomFieldTools == {"get_custom_fields", "get_pipeline_custom_fields"}

ApiRequest(method_, function, parameters) ==
    [method |-> method_, function |-> function, parameters |-> parameters]

(* get_custom_fields: if (args.record_type) params.RecordType = ...;         *)
(* if (args.pipeline_id) params.PipelineId = ...  (include_archived is left  *)
(* out).                                                                     *)
GetCustomFieldsParams(args) ==
    LET ks == (IF Truthy(args.record_type) THEN {"RecordType"} ELSE {})
              \cup (IF Truthy(args.pipeline_id) THEN {"PipelineId"} ELSE {})
    IN [k \in ks |-> IF k = "RecordType" THEN args.record_type.v ELSE args.pipeline_id.v]

(* The one API request each discovery tool makes. *)
DiscoveryRequest(tool, args) ==
    ApiRequest("call", "GetCustomFields",
               CASE tool = "get_custom_fields" -> GetCustomFieldsParams(args)
                 [] tool = "get_contact_schema" -> [RecordType |-> "Contact"]
                 [] tool = "get_company_schema" -> [RecordType |-> "Company"]
                 [] OTHER -> [RecordType |-> "Pipeline", PipelineId |-> args.pipeline_id.v])

FixedFieldsOf(tool) ==
    CASE tool = "get_contact_schema" -> CONTACT_FIXED_FIELDS
      [] tool = "get_company_schema" -> COMPANY_FIXED_FIELDS
      [] tool = "get_pipeline_item_schema" -> PIPELINE_ITEM_FIXED_FIELDS

RecordTypeOf(tool) ==
    CASE tool = "get_contact_schema" -> "Contact"
      [] tool = "get_company_schema" -> "Company"
      [] tool = "get_pipeline_item_schema" -> "PipelineItem"

(* `"${f.name}": ${f.valid_options ? `"${f.valid_options[0]}"` : '"value"'}` *)
FieldExample(d) ==
    "\"" \o d.name \o "\": "
         \o (IF "valid_options" \in DOMAIN d
             THEN "\"" \o (IF d.valid_options = <<>> THEN "undefined" ELSE d.valid_options[1])
                       \o "\""
             ELSE "\"value\"")
RECURSIVE JoinExamples(_)
JoinExamples(ds) ==
    IF ds = <<>> THEN ""
    ELSE IF Len(ds) = 1 THEN FieldExample(ds[1])
    ELSE FieldExample(ds[1]) \o ", " \o JoinExamples(Tail(ds))

UsageExample(tool, args, custom) ==
    CASE tool = "get_contact_schema" ->
            "create_contact with: { name: \"John Smith\", assigned_to: \"<user_id>\", email: [{text: \"john@example.com\", type: \"Work\"}] }"
      [] tool = "get_company_schema" ->
            "create_contact with: { name: \"Acme Corp\", is_company: true, assigned_to: \"<user_id>\" }"
      [] tool = "get_pipeline_item_schema" ->
            LET ex == JoinExamples(SelectSeq(custom, IsRequiredField)) IN
            "create_pipeline_item with: { contact_id: \"<id>\", pipeline_id: \""
                \o args.pipeline_id.v \o "\", status_id: \"<status_id>\""
                \o (IF ex # "" THEN ", custom_fields: { " \o ex \o " } }" ELSE " }")

(* Variant: no descriptor is listed as optional. *)
SchemaOutput_requiredOnly(tool, args, custom) ==
    LET fixed == FixedFieldsOf(tool)
        allFields == fixed \o custom
        requiredFields == SelectSeq(allFields, IsRequiredField)
    IN [record_type |-> RecordTypeOf(tool),
        pipeline_id |-> args.pipeline_id,
        summary |-> [total_fields |-> Len(allFields),
                     required_count |-> Len(requiredFields),
                     fixed_fields |-> Len(fixed),
                     custom_fields |-> Len(custom)],
        required_fields |-> requiredFields,
        optional_fields |-> <<>>,
        usage_example |-> UsageExample(tool, args, custom)]

(* The output object of a schema tool; pipeline_id is undefined, and left   *)
(* out of the text, for the contact and company schemas.                    *)
SchemaOutput(tool, args, custom) ==
    LET fixed == FixedFieldsOf(tool)
        allFields == fixed \o custom
        requiredFields == SelectSeq(allFields, IsRequiredField)
    IN [record_type |-> RecordTypeOf(tool),
        pipeline_id |-> args.pipeline_id,
        summary |-> [total_fields |-> Len(allFields),
                     required_count |-> Len(requiredFields),
                     fixed_fields |-> Len(fixed),
                     custom_fields |-> Len(custom)],
        required_fields |-> requiredFields,
        optional_fields |-> SelectSeq(allFields, IsOptionalField),
        usage_example |-> UsageExample(tool, args, custom)]

(* The output object of get_custom_fields / get_pipeline_custom_fields      *)
(* (grouping by record type and the usage notes are left out).              *)
CustomFieldsOutput(tool, args, formatted) ==
    [pipeline_id |-> args.pipeline_id,
     summary |-> [total_fields |-> Len(formatted),
                  required_count |-> Len(SelectSeq(formatted, IsRequiredField))],
     fields |-> formatted]

----------------------------------------------------------------------------
(* The file tools (tools/files): validateFilePath and create_file.          *)

(* A path is its segments between "/" and whether it starts with "/".  The  *)
(* segment "docs\\.git" holds a backslash, "v1..2" two dots inside a name.  *)
MaxPathLen == 3
Segments == {"..", ".", "docs", ".git", ".ENV", "a.txt", "v1..2", "docs\\.git"}
PathOf(abs, segs) == [abs |-> abs, segs |-> segs]
Paths == { PathOf(abs, segs) :
             abs \in BOOLEAN, segs \in UNION {[1..n -> Segments] : n \in 1..MaxPathLen} }

(* path.normalize (POSIX): "." dropped, ".." removes the segment before it, *)
(* is dropped at the root and kept at the head of a relative path; an empty *)
(* relative result is ".".                                                  *)
RECURSIVE NormalizeSegments(_, _, _)
NormalizeSegments(segs, abs, acc) ==
    IF segs = <<>> THEN acc
    ELSE LET seg == Head(segs) IN
         NormalizeSegments(Tail(segs), abs,
            IF seg = "." THEN acc
            ELSE IF seg = ".."
                 THEN IF acc # <<>> /\ acc[Len(acc)] # ".." THEN SubSeq(acc, 1, Len(acc) - 1)
                      ELSE IF abs THEN acc ELSE Append(acc, "..")
                 ELSE Append(acc, seg))
normalize(path) ==
    LET segs == NormalizeSegments(path.segs, path.abs, <<>>) IN
    PathOf(path.abs, IF segs = <<>> /\ ~path.abs THEN <<".">> ELSE segs)

(* .replace(/\\/g, '/') followed by .split('/'): a backslash inside a       *)
(* segment divides it.                                                      *)
SplitBackslash(seg) == IF seg = "docs\\.git" THEN <<"docs", ".git">> ELSE <<seg>>
RECURSIVE SplitAll(_)
SplitAll(segs) ==
    IF segs = <<>> THEN <<>> ELSE SplitBackslash(Head(segs)) \o SplitAll(Tail(segs))

(* String.prototype.includes('..') and toLowerCase on a segment. *)
IncludesDotDot(seg) == seg \in {"..", "v1..2"}
toLowerCase(seg) == IF seg = ".ENV" THEN ".env" ELSE seg

forbiddenExact ==
    {".git", ".env", ".ssh", ".aws", ".config", "node_modules", "__pycache__", ".venv",
     "credentials", "secrets", ".npmrc", ".pypirc"}

validateFilePath(filePath) ==
    LET segments == SplitAll(normalize(filePath).segs) IN
    IF \E i \in DOMAIN segments : IncludesDotDot(segments[i])
    THEN [valid |-> FALSE, error |-> "Path cannot contain \"..\" (path traversal not allowed)"]
    ELSE IF \E i \in DOMAIN segments : toLowerCase(segments[i]) \in forbiddenExact
         THEN LET i == CHOOSE j \in DOMAIN segments :
                         /\ toLowerCase(segments[j]) \in forbiddenExact
                         /\ \A k \in 1..(j - 1) : toLowerCase(segments[k]) \notin forbiddenExact
              IN [valid |-> FALSE,
                  error |-> "Access to sensitive path \"" \o toLowerCase(segments[i])
                                \o "\" is not allowed"]
         ELSE [valid |-> TRUE]

basename(path) == IF path.segs = <<>> THEN "" ELSE path.segs[Len(path.segs)]

(* The bytes of the file on disk and of the base64 text "aGk=". *)
FileBytes == <<104, 105>>
Base64Decode(text) == IF text = "aGk=" THEN <<104, 105>> ELSE <<>>
ENOENT == [name |-> "Error", message |-> "ENOENT: no such file or directory"]

(* A Uint8Array: a view of byteLength bytes at byteOffset of a buffer. *)
Uint8Array(buffer, byteOffset, byteLength) ==
    [buffer |-> buffer, byteOffset |-> byteOffset, byteLength |-> byteLength]
FileToUpload(name, bytes) ==
    [name |-> name, content |-> Uint8Array(bytes, 0, Len(bytes)),
     mimeType |-> "application/octet-stream"]

----------------------------------------------------------------------------
(* The webhook, group, edit and list tools.                                 *)

(* A parameters object built key by key: entries are [key, value] pairs     *)
(* with distinct keys.                                                      *)
ParamsOf(entries) ==
    [k \in {e.key : e \in entries} |-> (CHOOSE e \in entries : e.key = k).value]
Entry(key, value) == [key |-> key, value |-> value]
EntryIf(cond, key, value) == IF cond THEN {Entry(key, value)} ELSE {}

(* String.prototype.toLowerCase and startsWith on a text. *)
UpperLetters == "ABCDEFGHIJKLMNOPQRSTUVWXYZ"
LowerLetters == "abcdefghijklmnopqrstuvwxyz"
LowerChar(c) ==
    IF \E i \in 1..Len(UpperLetters) : SubSeq(UpperLetters, i, i) = c
    THEN LET i == CHOOSE j \in 1..Len(UpperLetters) : SubSeq(UpperLetters, j, j) = c
         IN SubSeq(LowerLetters, i, i)
    ELSE c
RECURSIVE toLowerCaseText(_)
toLowerCaseText(text) ==
    IF Len(text) = 0 THEN ""
    ELSE LowerChar(SubSeq(text, 1, 1)) \o toLowerCaseText(SubSeq(text, 2, Len(text)))
startsWith(text, prefix) ==
    Len(text) >= Len(prefix) /\ SubSeq(text, 1, Len(prefix)) = prefix

(* tools/settings/webhooks.ts, create_webhook: the HTTPS test comes before  *)
(* getClient().                                                             *)
WebhookTools == {"create_webhook"}

(* Variant: the scheme is compared as written. *)
create_webhook_check_caseSensitive(args) ==
    IF ~startsWith(args.endpoint_url.v, "https://")
    THEN [ok |-> FALSE, text |-> "Error: Webhook endpoint URL must use HTTPS"]
    ELSE [ok |-> TRUE]

create_webhook_check(args) ==
    IF ~startsWith(toLowerCaseText(args.endpoint_url.v), "https://")
    THEN [ok |-> FALSE, text |-> "Error: Webhook endpoint URL must use HTTPS"]
    ELSE [ok |-> TRUE]

create_webhook_request(args) ==
    ApiRequest("call", "CreateWebhook",
               [EndpointUrl |-> args.endpoint_url, Events |-> args.events,
                WebhookScope |-> args.webhook_scope])

(* tools/groups/index.ts: the group_id / group_name test of the three       *)
(* membership tools, and the request each sends.                            *)
GroupTools == {"add_contact_to_group", "remove_contact_from_group", "get_contacts_in_group"}

(* Variant: both identifiers together are let through. *)
group_check_bothAllowed(args) ==
    IF ~Truthy(args.group_id) /\ ~Truthy(args.group_name)
    THEN [ok |-> FALSE, text |-> "Error: Either group_id or group_name is required"]
    ELSE [ok |-> TRUE]

group_check(args) ==
    IF ~Truthy(args.group_id) /\ ~Truthy(args.group_name)
    THEN [ok |-> FALSE, text |-> "Error: Either group_id or group_name is required"]
    ELSE IF Truthy(args.group_id) /\ Truthy(args.group_name)
         THEN [ok |-> FALSE, text |-> "Error: Use either group_id or group_name, not both"]
         ELSE [ok |-> TRUE]

GroupFunction(tool) ==
    CASE tool = "add_contact_to_group" -> "CreateGroupMembership"
      [] tool = "remove_contact_from_group" -> "DeleteGroupMembership"
      [] tool = "get_contacts_in_group" -> "GetContactsInGroup"

group_request(tool, args) ==
    ApiRequest("call", GroupFunction(tool),
        ParamsOf(EntryIf(tool # "get_contacts_in_group", "ContactId", args.contact_id)
                 \cup EntryIf(Truthy(args.group_id), "GroupId", args.group_id)
                 \cup EntryIf(Truthy(args.group_name), "GroupName", args.group_name)
                 \cup EntryIf(tool = "get_contacts_in_group" /\ Truthy(args.max_results),
                              "MaxNumberOfResults", args.max_results)
                 \cup EntryIf(tool = "get_contacts_in_group" /\ Truthy(args.page),
                              "Page", args.page)))

(* Object.assign(target, source): the keys of source replace those of      *)
(* target.                                                                  *)
ObjectAssign(target, source) ==
    [k \in DOMAIN target \cup DOMAIN source |->
        IF k \in DOMAIN source THEN source[k] ELSE target[k]]

(* The edit tools of tools/contacts, tools/tasks, tools/events and          *)
(* tools/pipeline-items, and create_pipeline_item: the identifier, the      *)
(* `if (args.x !== undefined) params.X = args.x` lines, the merge of        *)
(* custom_fields.                                                           *)
EditTools == {"edit_contact", "edit_task", "edit_event", "edit_pipeline_item"}
ItemTools == EditTools \cup {"create_pipeline_item"}

Wire(arg, key) == [arg |-> arg, key |-> key]

IdentifiersOf(tool) ==
    CASE tool = "edit_contact" -> {Wire("contact_id", "ContactId")}
      [] tool = "edit_task" -> {Wire("task_id", "TaskId")}
      [] tool = "edit_event" -> {Wire("event_id", "EventId")}
      [] tool = "edit_pipeline_item" -> {Wire("pipeline_item_id", "PipelineItemId")}
      [] tool = "create_pipeline_item" ->
            {Wire("contact_id", "ContactId"), Wire("pipeline_id", "PipelineId"),
             Wire("status_id", "StatusId")}

(* Arguments copied when they are not undefined. *)
WireKeys(tool) ==
    CASE tool = "edit_contact" ->
            {Wire("name", "Name"), Wire("assigned_to", "AssignedTo"),
             Wire("is_company", "IsCompany"), Wire("email", "Email"),
             Wire("phone", "Phone"), Wire("company_name", "Company Name"),
             Wire("job_title", "Job Title"), Wire("address", "Address"),
             Wire("website", "Website"), Wire("background_info", "Background Info"),
             Wire("birthday", "Birthday")}
      [] tool = "edit_task" ->
            {Wire("name", "Name"), Wire("due_date", "DueDate"),
             Wire("assigned_to", "AssignedTo"), Wire("calendar_id", "CalendarId"),
             Wire("description", "Description"), Wire("contact_id", "ContactId"),
             Wire("is_complete", "IsComplete")}
      [] tool = "edit_event" ->
            {Wire("name", "Name"), Wire("start_date", "StartDate"),
             Wire("end_date", "EndDate"), Wire("is_all_day", "IsAllDay"),
             Wire("location", "Location"), Wire("description", "Description"),
             Wire("calendar_id", "CalendarId"), Wire("attendees", "Attendees"),
             Wire("is_recurring", "IsRecurring"), Wire("recurrence_rule", "RecurrenceRule"),
             Wire("end_recurrence_date", "EndRecurrenceRule")}
      [] tool = "edit_pipeline_item" ->
            {Wire("status_id", "StatusId"), Wire("note", "Note"),
             Wire("run_automation", "RunStatusAutomation")}
      [] tool = "create_pipeline_item" -> {Wire("run_automation", "RunStatusAutomation")}

(* Arguments copied when they are truthy. *)
TruthyKeys(tool) ==
    IF tool = "create_pipeline_item" THEN {Wire("note", "Note")} ELSE {}

TakesCustomFields(tool) == tool \in {"edit_contact", "edit_pipeline_item", "create_pipeline_item"}

ItemFunction(tool) ==
    CASE tool = "edit_contact" -> "EditContact"
      [] tool = "edit_task" -> "EditTask"
      [] tool = "edit_event" -> "EditEvent"
      [] tool = "edit_pipeline_item" -> "EditPipelineItem"
      [] tool = "create_pipeline_item" -> "CreatePipelineItem"

MappedParams(tool, args) ==
    ParamsOf({Entry(f.key, args[f.arg]) : f \in IdentifiersOf(tool)}
             \cup {Entry(f.key, args[f.arg]) :
                      f \in {g \in WireKeys(tool) : args[g.arg] # Undefined}}
             \cup {Entry(f.key, args[f.arg]) :
                      f \in {g \in TruthyKeys(tool) : Truthy(args[g.arg])}})

item_request(tool, args) ==
    ApiRequest("call", ItemFunction(tool),
               IF TakesCustomFields(tool) /\ Truthy(args.custom_fields)
               THEN ObjectAssign(MappedParams(tool, args), args.custom_fields.v)
               ELSE MappedParams(tool, args))

(* The list tools of tools/discovery: the array taken from the API result. *)
ListTools == {"get_pipelines", "get_groups", "get_users", "get_calendars"}

ListFunction(tool) ==
    CASE tool = "get_pipelines" -> "GetPipelines"
      [] tool = "get_groups" -> "GetGroups"
      [] tool = "get_users" -> "GetUsers"
      [] tool = "get_calendars" -> "GetCalendars"

ListKey(tool) ==
    CASE tool = "get_pipelines" -> "Pipelines"
      [] tool = "get_groups" -> "Groups"
      [] tool = "get_users" -> "Users"
      [] tool = "get_calendars" -> "Calendars"

TypeErrorOf(message) == [name |-> "TypeError", message |-> message]

(* Array.isArray(result) ? result : (result.Pipelines || []), and the       *)
(* if / else-if chain of get_groups.                                        *)
list_of(tool, result) ==
    IF result.t = "array" THEN [ok |-> TRUE, list |-> result]
    ELSE IF tool = "get_groups"
         THEN IF result.t # "object"
              THEN [ok |-> FALSE,
                    error |-> TypeErrorOf("Cannot use 'in' operator to search for 'Groups' in "
                                          \o result.t)]
              ELSE IF HasKey(result, "Groups") THEN [ok |-> TRUE, list |-> result.v.Groups]
              ELSE IF HasKey(result, "Results") THEN [ok |-> TRUE, list |-> result.v.Results]
              ELSE [ok |-> TRUE, list |-> JArr(<<>>)]
         ELSE IF result.t = "null"
              THEN [ok |-> FALSE,
                    error |-> TypeErrorOf("Cannot read properties of null (reading '"
                                          \o ListKey(tool) \o "')")]
              ELSE IF HasKey(result, ListKey(tool)) /\ Truthy(result.v[ListKey(tool)])
                   THEN [ok |-> TRUE, list |-> result.v[ListKey(tool)]]
                   ELSE [ok |-> TRUE, list |-> JArr(<<>>)]

(* The test a handler makes on its arguments before it asks for the client. *)
LocalCheck(tool, args) ==
    IF tool \in WebhookTools THEN create_webhook_check(args)
    ELSE IF tool \in GroupTools THEN group_check(args)
    ELSE [ok |-> TRUE]

----------------------------------------------------------------------------
(* Tool handlers.  A handler runs from its invocation to its awaited API    *)
(* call (or to an early return), and from the settling of that call to its  *)
(* return.                                                                  *)

NoArgs ==
    [contact_id |-> Undefined, record_type |-> Undefined, pipeline_id |-> Undefined,
     file_path |-> Undefined, file_base64 |-> Undefined, file_name |-> Undefined]

PipelineIds == {Undefined, JStr(""), JStr("p1"), JStr("p2")}

(* The arguments of an edit tool or of create_pipeline_item: the            *)
(* identifiers, up to MaxSupplied of the optional arguments, custom_fields. *)
MaxSupplied == 1
CustomFieldArgs ==
    {Undefined, JObj(<<>>), JObj([Industry |-> JStr("Tech")]),
     JObj([ContactId |-> JStr("999")]), JObj([Name |-> JStr("Zed")]),
     JObj([StatusId |-> JStr("s9"), PipelineItemId |-> JStr("999")])}
ArgValues(tool, arg) ==
    IF arg \in {"is_company", "is_complete", "is_all_day", "is_recurring", "run_automation"}
    THEN {JBool(FALSE), JBool(TRUE)}
    ELSE IF arg \in {"email", "phone", "address", "website", "attendees"}
    THEN {JArr(<<>>)}
    ELSE IF tool = "edit_task" /\ arg = "contact_id" THEN {JNull, JStr("7")}
    ELSE {JStr(""), JStr("A")}
OptionalArgs(tool) == {f.arg : f \in WireKeys(tool) \cup TruthyKeys(tool)}
ItemArgs(tool) ==
    LET ids == {f.arg : f \in IdentifiersOf(tool)}
        names == ids \cup OptionalArgs(tool) \cup {"custom_fields"}
        values == UNION {ArgValues(tool, a) : a \in OptionalArgs(tool)}
    IN UNION {
         { [a \in names |->
               IF a \in ids THEN JStr("1")
               ELSE IF a = "custom_fields" THEN cf
               ELSE IF a \in chosen THEN v[a]
               ELSE Undefined] :
             v \in {w \in [chosen -> values] : \A a \in chosen : w[a] \in ArgValues(tool, a)},
             cf \in IF TakesCustomFields(tool) THEN CustomFieldArgs ELSE {Undefined} } :
         chosen \in {c \in SUBSET OptionalArgs(tool) : Cardinality(c) <= MaxSupplied} }

EndpointUrls ==
    {"https://a.io/hook", "HTTPS://A.IO/hook", "Https://a.io", "http://a.io/hook",
     "HTTP://a.io", "https:/a.io", "ftp://a.io/https://", " https://a.io", "https://", ""}
GroupIds == {Undefined, JStr(""), JStr("g1")}
GroupNames == {Undefined, JStr(""), JStr("VIP")}

(* The arguments an MCP client sends to each tool. *)
ArgsOf(tool) ==
    CASE tool = "get_contact" ->
            {[NoArgs EXCEPT !.contact_id = c] : c \in {Undefined, JStr("1")}}
      [] tool = "get_custom_fields" ->
            {[NoArgs EXCEPT !.record_type = r, !.pipeline_id = p] :
                r \in {Undefined, JStr("Contact"), JStr("Pipeline")}, p \in PipelineIds}
      [] tool \in {"get_pipeline_custom_fields", "get_pipeline_item_schema"} ->
            {[NoArgs EXCEPT !.pipeline_id = p] : p \in PipelineIds}
      [] tool \in {"get_contact_schema", "get_company_schema"} -> {NoArgs}
      [] tool = "create_file" ->
            {[NoArgs EXCEPT !.contact_id = JStr("1"), !.file_path = f] :
                f \in Paths \cup {Undefined}}
            \cup {[NoArgs EXCEPT !.contact_id = JStr("1"), !.file_base64 = JStr("aGk="),
                                 !.file_name = n, !.file_path = f] :
                    n \in {Undefined, JStr("hi.txt")},
                    f \in {Undefined, PathOf(FALSE, <<"..", "a.txt">>)}}
      [] tool \in ItemTools -> ItemArgs(tool)
      [] tool \in ListTools -> {NoArgs}
      [] tool = "create_webhook" ->
            {[endpoint_url |-> JStr(u), events |-> JArr(<<JStr("Contact.Create")>>),
              webhook_scope |-> JStr(sc)] : u \in EndpointUrls, sc \in {"User", "Account"}}
      [] tool \in {"add_contact_to_group", "remove_contact_from_group"} ->
            {[contact_id |-> JStr("1"), group_id |-> g, group_name |-> n,
              max_results |-> Undefined, page |-> Undefined] :
                g \in GroupIds, n \in GroupNames}
      [] tool = "get_contacts_in_group" ->
            {[contact_id |-> Undefined, group_id |-> g, group_name |-> n,
              max_results |-> m, page |-> pg] :
                g \in GroupIds, n \in GroupNames,
                m \in {Undefined, JNum(0), JNum(50)}, pg \in {Undefined, JNum(2)}}

(* inputSchema: the zod shape the MCP server checks the arguments against   *)
(* before it calls the handler.                                             *)
InputValid(tool, args) ==
    CASE tool \in {"get_contact", "create_file"} -> args.contact_id.t = "string"
      [] tool \in {"get_pipeline_custom_fields", "get_pipeline_item_schema"} ->
            args.pipeline_id.t = "string"
      [] OTHER -> TRUE

HandlerStep(p, calls, reads, result) ==
    [pc |-> p, calls |-> calls, reads |-> reads, result |-> result]
Returns(result, reads) == HandlerStep("done", <<>>, reads, result)
Awaits(request, reads) == HandlerStep("awaiting", <<request>>, reads, NoResult)

(* create_file, to the awaited client.callWithFile or to an early return;  *)
(* readable: readFileSync finds the file.                                   *)
create_file_start(args, readable) ==
    IF Truthy(args.file_base64)
    THEN IF ~Truthy(args.file_name)
         THEN Returns(ErrorResult("Error: file_name is required when using file_base64"), <<>>)
         ELSE Awaits([method |-> "callWithFile", function |-> "CreateFile",
                      parameters |-> [ContactId |-> args.contact_id],
                      file |-> FileToUpload(args.file_name.v,
                                            Base64Decode(args.file_base64.v))],
                     <<>>)
    ELSE IF args.file_path # Undefined
         THEN LET validation == validateFilePath(args.file_path) IN
              IF ~validation.valid
              THEN Returns(ErrorResult("Security error: " \o validation.error), <<>>)
              ELSE IF ~readable
                   THEN Returns(ErrorResult("Error reading file: " \o ENOENT.message),
                                <<args.file_path>>)
                   ELSE Awaits([method |-> "callWithFile", function |-> "CreateFile",
                                parameters |-> [ContactId |-> args.contact_id],
                                file |-> FileToUpload(
                                    IF Truthy(args.file_name) THEN args.file_name.v
                                    ELSE basename(args.file_path),
                                    FileBytes)],
                               <<args.file_path>>)
         ELSE Returns(ErrorResult("Error: Either file_base64 or file_path is required"), <<>>)

(* A handler from its invocation: getClient(), then the tool's own code. *)
handler_start(tool, args, instance, readable) ==
    IF ~LocalCheck(tool, args).ok
    THEN Returns(ErrorResult(LocalCheck(tool, args).text), <<>>)
    ELSE IF ~getClient(instance).ok
    THEN Returns(ErrorResult(formatErrorForLLM(getClient(instance).error)), <<>>)
    ELSE IF tool = "create_file" THEN create_file_start(args, readable)
    ELSE IF tool \in WebhookTools THEN Awaits(create_webhook_request(args), <<>>)
    ELSE IF tool \in GroupTools THEN Awaits(group_request(tool, args), <<>>)
    ELSE IF tool \in ItemTools THEN Awaits(item_request(tool, args), <<>>)
    ELSE IF tool \in ListTools THEN Awaits(ApiRequest("call", ListFunction(tool), <<>>), <<>>)
    ELSE IF tool = "get_contact"
         THEN Awaits(ApiRequest("call", "GetContact", [ContactId |-> args.contact_id.v]), <<>>)
         ELSE Awaits(DiscoveryRequest(tool, args), <<>>)

(* The handler's code after a resolved API call: the result, or the error   *)
(* thrown on the way.                                                       *)
handler_compose(tool, args, value) ==
    CASE tool = "get_contact" -> [ok |-> TRUE, result |-> JsonResult(value)]
      [] tool = "create_webhook" ->
            IF value.t = "null"
            THEN [ok |-> FALSE,
                  error |-> [name |-> "TypeError",
                             message |-> "Cannot read properties of null (reading 'WebhookId')"]]
            ELSE [ok |-> TRUE,
                  result |-> JsonResult(JStr("Webhook created successfully. WebhookId: "
                                \o (IF HasKey(value, "WebhookId") THEN value.v.WebhookId.v
                                                                 ELSE "undefined")))]
      [] tool = "add_contact_to_group" ->
            [ok |-> TRUE,
             result |-> JsonResult(JStr("Contact " \o args.contact_id.v
                                        \o " added to group successfully."))]
      [] tool = "remove_contact_from_group" ->
            [ok |-> TRUE,
             result |-> JsonResult(JStr("Contact " \o args.contact_id.v
                                        \o " removed from group successfully."))]
      [] tool = "get_contacts_in_group" -> [ok |-> TRUE, result |-> JsonResult(value)]
      [] tool \in EditTools ->
            [ok |-> TRUE,
             result |-> JsonResult(JStr(
                 (CASE tool = "edit_contact" -> "Contact "
                    [] tool = "edit_task" -> "Task "
                    [] tool = "edit_event" -> "Event "
                    [] tool = "edit_pipeline_item" -> "Pipeline item ")
                 \o args[(CHOOSE f \in IdentifiersOf(tool) : TRUE).arg].v
                 \o " updated successfully."))]
      [] tool = "create_pipeline_item" ->
            IF value.t = "null"
            THEN [ok |-> FALSE,
                  error |-> TypeErrorOf("Cannot read properties of null (reading 'PipelineItemId')")]
            ELSE [ok |-> TRUE,
                  result |-> JsonResult(JStr("Pipeline item created successfully. PipelineItemId: "
                                \o (IF HasKey(value, "PipelineItemId")
                                    THEN value.v.PipelineItemId.v ELSE "undefined")))]
      [] tool \in ListTools ->
            IF list_of(tool, value).ok
            THEN [ok |-> TRUE, result |-> JsonResult(list_of(tool, value).list)]
            ELSE [ok |-> FALSE, error |-> list_of(tool, value).error]
      [] tool = "create_file" ->
            IF value.t = "null"
            THEN [ok |-> FALSE,
                  error |-> [name |-> "TypeError",
                             message |-> "Cannot read properties of null (reading 'FileId')"]]
            ELSE [ok |-> TRUE,
                  result |-> JsonResult(JStr("File uploaded successfully. FileId: "
                                \o (IF HasKey(value, "FileId") THEN value.v.FileId.v
                                                              ELSE "undefined")))]
      [] tool \in SchemaTools ->
            IF ~FieldsOf(value).ok THEN [ok |-> FALSE, error |-> FieldsOf(value).error]
            ELSE [ok |-> TRUE,
                  result |-> JsonResult(SchemaOutput(tool, args,
                                MapFields(FieldsOf(value).fields, SchemaFieldOf)))]
      [] tool \in CustomFieldTools ->
            IF ~FieldsOf(value).ok THEN [ok |-> FALSE, error |-> FieldsOf(value).error]
            ELSE [ok |-> TRUE,
                  result |-> JsonResult(CustomFieldsOutput(tool, args,
                                MapFields(FieldsOf(value).fields, formatCustomFieldForAI)))]

(* Variant: a schema tool answers from its last completed invocation. *)
handler_resume_cached(tool, args, o) ==
    IF tool \in SchemaTools /\ \E i \in DOMAIN served : served[i].tool = tool
    THEN served[CHOOSE i \in DOMAIN served :
                    served[i].tool = tool
                    /\ \A j \in DOMAIN served : served[j].tool = tool => j <= i].result
    ELSE IF o.kind = "rejected" THEN ErrorResult(formatErrorForLLM(o.error))
    ELSE IF handler_compose(tool, args, o.value).ok
         THEN handler_compose(tool, args, o.value).result
         ELSE ErrorResult(formatErrorForLLM(handler_compose(tool, args, o.value).error))

(* A handler from the settling of its API call: the catch turns a rejection *)
(* and anything thrown afterwards into an error result.                     *)
handler_resume(tool, args, o) ==
    IF o.kind = "rejected" THEN ErrorResult(formatErrorForLLM(o.error))
    ELSE IF handler_compose(tool, args, o.value).ok
         THEN handler_compose(tool, args, o.value).result
         ELSE ErrorResult(formatErrorForLLM(handler_compose(tool, args, o.value).error))

(* What client.call / client.callWithFile settle with (see call_okResponse, *)
(* call_errorResponse, call_fetchResolved, call_fetchRejected).             *)
MaxFields == 2
ApiRejections ==
    {Rejected(AuthenticationError),
     Rejected(ErrorOfBody(JsonParse(BodyError).value)),
     Rejected(HttpError([status |-> 500, statusText |-> StatusText(500), body |-> BodyHtml])),
     Rejected(SyntaxError)}
    \cup {Rejected(e) : e \in FetchErrors}
FieldLists(n) == UNION {[1..k -> CustomFields] : k \in 0..n}
FieldPayloads ==
    {JArr(fs) : fs \in FieldLists(MaxFields)}
    \cup {JObj([Results |-> JArr(<<f>>)]) : f \in CustomFields}
    \cup {JObj([HasMoreResults |-> JBool(FALSE)]), JNull}
(* What the list functions of the API answer with: a bare array, the        *)
(* pagination wrapper, a wrapper named after the list, null.                *)
ListItems == {<<>>, <<JObj([Id |-> JStr("a")])>>,
              <<JObj([Id |-> JStr("a")]), JObj([Id |-> JStr("b")])>>}
ListPayloads(tool) ==
    {JArr(items) : items \in ListItems}
    \cup {JObj([Results |-> JArr(items), HasMoreResults |-> JBool(more)]) :
            items \in ListItems, more \in BOOLEAN}
    \cup {JObj([k \in {ListKey(tool)} |-> JArr(items)]) : items \in ListItems}
    \cup {JNull}
ApiOutcomes(tool) ==
    CASE tool = "get_contact" ->
            ApiRejections \cup {Resolved(JNull), Resolved(JObj([ContactId |-> JStr("1")]))}
      [] tool = "create_file" ->
            ApiRejections \cup {Resolved(JNull), Resolved(JObj([FileId |-> JStr("f1")])),
                                Resolved(JObj([Success |-> JBool(TRUE)]))}
      [] tool \in SchemaTools \cup CustomFieldTools ->
            ApiRejections \cup {Resolved(v) : v \in FieldPayloads}
      [] tool = "create_webhook" ->
            ApiRejections \cup {Resolved(JNull), Resolved(JObj([WebhookId |-> JStr("w1")]))}
      [] tool \in ItemTools ->
            ApiRejections \cup {Resolved(JNull), Resolved(JObj([PipelineItemId |-> JStr("i1")]))}
      [] tool \in ListTools ->
            ApiRejections \cup {Resolved(v) : v \in ListPayloads(tool)}
      [] tool \in GroupTools ->
            ApiRejections \cup {Resolved(JNull), Resolved(JArr(<<>>)),
                                Resolved(JObj([Results |-> JArr(<<JObj([ContactId |-> JStr("1")])>>),
                                               HasMoreResults |-> JBool(FALSE)]))}
      [] OTHER -> {}

(* The responses of the runs that follow a sequence of schema-tool          *)
(* invocations.                                                             *)
SequenceOutcomes ==
    {Rejected(AuthenticationError),
     Resolved(JArr(<<>>)),
     Resolved(JArr(<<CustomFieldDetail("2", "Dropdown", JBool(TRUE), SomeOptions)>>)),
     Resolved(JObj([Results |-> JArr(<<CustomFieldDetail("1", "Text", Undefined, Undefined)>>)]))}

(* An MCP client invokes a tool with arguments the input schema accepts:    *)
(* the handler runs to its awaited API call or to an early return.          *)
toolInvoked(tool, args, readable) ==
    /\ mainPc = "serving"
    /\ toolPc = "idle"
    /\ InputValid(tool, args)
    /\ toolName' = tool
    /\ toolArgs' = args
    /\ LET h == handler_start(tool, args, clientInstance, readable) IN
        /\ toolPc' = h.pc
        /\ apiCalls' = h.calls
        /\ fileReads' = h.reads
        /\ toolResult' = h.result
    /\ apiOutcome' = Pending
    /\ UNCHANGED <<served, clientVars, startupVars, uploadVars>>

(* An MCP client invokes a tool with arguments the input schema rejects:    *)
(* the MCP server answers without calling the handler, with an error result *)
(* or, in older SDK versions, with a JSON-RPC error.                        *)
inputRejected(tool, args, asResult) ==
    /\ mainPc = "serving"
    /\ toolPc = "idle"
    /\ ~InputValid(tool, args)
    /\ toolName' = tool
    /\ toolArgs' = args
    /\ toolPc' = "done"
    /\ apiCalls' = <<>>
    /\ fileReads' = <<>>
    /\ toolResult' = IF asResult
                     THEN ErrorResult("MCP error -32602: Invalid arguments for tool " \o tool)
                     ELSE [rpcError |-> "InvalidParams"]
    /\ apiOutcome' = Pending
    /\ UNCHANGED <<served, clientVars, startupVars, uploadVars>>

(* The awaited API call settles with o: the handler runs to its return.     *)
(* Up to keep completed schema-tool invocations are remembered.             *)
apiSettles(o, keep) ==
    /\ toolPc = "awaiting"
    /\ toolPc' = "done"
    /\ apiOutcome' = o
    /\ toolResult' = handler_resume(toolName, toolArgs, o)
    /\ served' = IF toolName \in SchemaTools /\ Len(served) < keep
                 THEN Append(served, [tool |-> toolName, args |-> toolArgs, response |-> o,
                                      result |-> toolResult'])
                 ELSE served
    /\ UNCHANGED <<toolName, toolArgs, apiCalls, fileReads, clientVars, startupVars, uploadVars>>

(* The result has been sent to the MCP client: the invocation is over. *)
resultSent ==
    /\ toolPc = "done"
    /\ toolPc' = "idle"
    /\ toolName' = "none"
    /\ toolArgs' = NoArgs
    /\ apiCalls' = <<>>
    /\ fileReads' = <<>>
    /\ toolResult' = NoResult
    /\ apiOutcome' = Pending
    /\ httpRequest' = NoRequest
    /\ UNCHANGED <<served, uploadArgs, clientVars, startupVars>>

ToolIdle ==
    /\ toolPc = "idle"
    /\ toolName = "none"
    /\ toolArgs = NoArgs
    /\ apiCalls = <<>>
    /\ fileReads = <<>>
    /\ toolResult = NoResult
    /\ apiOutcome = Pending
    /\ served = <<>>

----------------------------------------------------------------------------
(* LacrmClient.callWithFile: the multipart request.                         *)

(* JSON.stringify of the parameters object: a key whose value is undefined  *)
(* is left out of the text.                                                 *)
JSON_stringify(value) ==
    [json |-> IF value.t = "object"
              THEN JObj([k \in {q \in DOMAIN value.v : value.v[q] # Undefined} |-> value.v[k]])
              ELSE value]

(* ArrayBuffer.prototype.slice(begin, end) and new Blob([arrayBuffer], { type }). *)
slice(buffer, begin, end) == SubSeq(buffer, begin + 1, end)
Blob(bytes, type) == [bytes |-> bytes, type |-> type]

(* Variant: call sends no credential. *)
call_request_anonymous(apiKey, functionName, parameters) ==
    [method |-> "POST",
     headers |-> [ContentType |-> "application/json"],
     body |-> JSON_stringify(JObj([Function |-> JStr(functionName),
                                   Parameters |-> JObj(parameters)]))]

(* The request call hands to fetch: the JSON text of { Function,            *)
(* Parameters }, the Content-Type and Authorization headers.                *)
call_request(apiKey, functionName, parameters) ==
    [method |-> "POST",
     headers |-> [ContentType |-> "application/json", Authorization |-> apiKey],
     body |-> JSON_stringify(JObj([Function |-> JStr(functionName),
                                   Parameters |-> JObj(parameters)]))]

(* Variant: the whole underlying buffer is uploaded. *)
callWithFile_request_wholeBuffer(apiKey, functionName, parameters, file) ==
    [method |-> "POST",
     headers |-> [Authorization |-> apiKey],
     body |-> [Function |-> functionName,
               Parameters |-> JSON_stringify(parameters),
               File |-> [value |-> Blob(file.content.buffer, file.mimeType),
                         filename |-> file.name]]]

(* The request callWithFile hands to fetch: the FormData with its Function, *)
(* Parameters and File entries, the Authorization header, no Content-Type.  *)
callWithFile_request(apiKey, functionName, parameters, file) ==
    [method |-> "POST",
     headers |-> [Authorization |-> apiKey],
     body |-> [Function |-> functionName,
               Parameters |-> JSON_stringify(parameters),
               File |-> [value |-> Blob(slice(file.content.buffer,
                                              file.content.byteOffset,
                                              file.content.byteOffset + file.content.byteLength),
                                        file.mimeType),
                         filename |-> file.name]]]

(* The files, parameters and functions callWithFile is invoked with. *)
MaxBufferLen == 3
Bytes == {7, 200}
Buffers == UNION {[1..n -> Bytes] : n \in 0..MaxBufferLen}
Views ==
    { Uint8Array(b, off, len) :
        b \in Buffers, off \in 0..MaxBufferLen, len \in 0..MaxBufferLen }
UploadFiles ==
    { [name |-> n, content |-> c, mimeType |-> m] :
        n \in {"hi.txt", "a b.pdf"},
        c \in {v \in Views : v.byteOffset + v.byteLength <= Len(v.buffer)},
        m \in {"application/octet-stream", "application/pdf"} }
UploadParameters ==
    {JObj([ContactId |-> JStr("1")]),
     JObj([ContactId |-> JStr("2"), Tags |-> JArr(<<JStr("x")>>), Note |-> JNull])}
UploadInputs ==
    [functionName : {"CreateFile"}, parameters : UploadParameters, file : UploadFiles]

(* client.callWithFile(functionName, parameters, file) is invoked in slot i: *)
(* the request is built and handed to fetch.                                 *)
callWithFileSends(i, cap) ==
    /\ httpRequest = NoRequest
    /\ callWithFile(i, cap)
    /\ httpRequest' = callWithFile_request(clientInstance.apiKey, uploadArgs.functionName,
                                           uploadArgs.parameters, uploadArgs.file)
    /\ UNCHANGED <<uploadArgs, startupVars, toolVars>>

UploadIdle ==
    /\ uploadArgs = [functionName |-> "CreateFile", parameters |-> JObj([ContactId |-> JStr("1")]),
                     file |-> FileToUpload("hi.txt", FileBytes)]
    /\ httpRequest = NoRequest

(* The handler's awaited client.call / client.callWithFile runs to its      *)
(* fetch: the request is built with the key of the client the handler got  *)
(* from getClient().                                                        *)
clientSends ==
    /\ mainPc = "serving"
    /\ toolPc = "awaiting"
    /\ httpRequest = NoRequest
    /\ httpRequest' =
          LET request == apiCalls[Len(apiCalls)]
              client == getClient(clientInstance).client
          IN IF request.method = "call"
             THEN call_request(client.apiKey, request.function, request.parameters)
             ELSE callWithFile_request(client.apiKey, request.function,
                                       JObj(request.parameters), request.file)
    /\ UNCHANGED <<uploadArgs, clientVars, startupVars, toolVars>>

InitSlots(n) ==
    /\ now = 0
    /\ requests = EmptyBag
    /\ pc = [i \in 1..n |-> "idle"]
    /\ method = [i \in 1..n |-> "call"]
    /\ response = [i \in 1..n |-> NoResponse]
    /\ outcome = [i \in 1..n |-> Pending]
    /\ fetches = [i \in 1..n |-> 0]
    /\ bodyRead = [i \in 1..n |-> FALSE]
    /\ fetchError = [i \in 1..n |-> NoError]
    /\ atLimit = [i \in 1..n |-> FALSE]

(* Classification runs: every response and every fetch failure, few requests. *)
Init == InitSlots(MaxCalls) /\ Serving /\ ToolIdle /\ UploadIdle

Next ==
    \/ \E i \in Slots : call(i, MaxRequests) /\ UNCHANGED <<startupVars, toolVars, uploadVars>>
    \/ \E i \in Slots : callWithFile(i, MaxRequests) /\ UNCHANGED <<startupVars, toolVars, uploadVars>>
    \/ \E i \in Slots : \E r \in Responses : fetchResolves(i, r) /\ UNCHANGED <<startupVars, toolVars, uploadVars>>
    \/ \E i \in Slots : \E e \in FetchErrors : fetchRejects(i, e) /\ UNCHANGED <<startupVars, toolVars, uploadVars>>
    \/ \E i \in Slots : jsonSettles(i) /\ UNCHANGED <<startupVars, toolVars, uploadVars>>
    \/ Tick(MaxTime) /\ UNCHANGED <<startupVars, toolVars, uploadVars>>

Spec == Init /\ [][Next]_vars

(* Request-rate runs: concurrent callers, one response, the clock running,  *)
(* as many requests as the documented limit and MaxOver more.                *)
InitRate == InitSlots(MaxCallsRate) /\ Serving /\ ToolIdle /\ UploadIdle

NextRate ==
    \/ \E i \in Slots : call(i, RATE_LIMIT + MaxOver) /\ UNCHANGED <<startupVars, toolVars, uploadVars>>
    \/ \E i \in Slots : callWithFile(i, RATE_LIMIT + MaxOver) /\ UNCHANGED <<startupVars, toolVars, uploadVars>>
    \/ \E i \in Slots : \E r \in RateResponses : fetchResolves(i, r) /\ UNCHANGED <<startupVars, toolVars, uploadVars>>
    \/ \E i \in Slots : jsonSettles(i) /\ UNCHANGED <<startupVars, toolVars, uploadVars>>
    \/ Tick(MaxTimeRate) /\ UNCHANGED <<startupVars, toolVars, uploadVars>>

SpecRate == InitRate /\ [][NextRate]_vars

(* Burst runs: the same callers issuing their calls within one clock value. *)
NextBurst ==
    \/ \E i \in Slots : call(i, RATE_LIMIT + MaxOver) /\ UNCHANGED <<startupVars, toolVars, uploadVars>>
    \/ \E i \in Slots : callWithFile(i, RATE_LIMIT + MaxOver) /\ UNCHANGED <<startupVars, toolVars, uploadVars>>
    \/ \E i \in Slots : \E r \in RateResponses : fetchResolves(i, r) /\ UNCHANGED <<startupVars, toolVars, uploadVars>>
    \/ \E i \in Slots : jsonSettles(i) /\ UNCHANGED <<startupVars, toolVars, uploadVars>>

SpecBurst == InitRate /\ [][NextBurst]_vars

(* Startup runs: the process started in every environment. *)
InitStartup ==
    InitSlots(MaxCalls) /\ ToolIdle /\ UploadIdle /\ \E e \in Environments : ProcessStart(e)

NextStartup ==
    \/ mainStarts
    \/ connectResolves
    \/ \E err \in ConnectErrors : connectRejects(err)

SpecStartup == InitStartup /\ [][NextStartup]_vars

(* Tool runs: the serving process, one tool invocation after another, every *)
(* argument and every API outcome.                                          *)
InitTools == InitSlots(MaxCalls) /\ Serving /\ ToolIdle /\ UploadIdle

NextTools ==
    \/ toolPc = "idle" /\ \E tool \in Tools : \E args \in ArgsOf(tool) :
            \E readable \in BOOLEAN : toolInvoked(tool, args, readable)
    \/ toolPc = "idle" /\ \E tool \in Tools : \E args \in ArgsOf(tool) :
            \E asResult \in BOOLEAN : inputRejected(tool, args, asResult)
    \/ toolPc = "awaiting" /\ \E o \in ApiOutcomes(toolName) : apiSettles(o, 0)
    \/ resultSent

SpecTools == InitTools /\ [][NextTools]_vars

(* Schema runs: sequences of schema-tool invocations, remembered. *)
MaxInvocations == 2

NextSchemaSeq ==
    \/ toolPc = "idle" /\ Len(served) < MaxInvocations
          /\ \E tool \in SchemaTools : \E args \in ArgsOf(tool) : toolInvoked(tool, args, TRUE)
    \/ toolPc = "awaiting" /\ \E o \in SequenceOutcomes : apiSettles(o, MaxInvocations)
    \/ resultSent

SpecSchemaSeq == InitTools /\ [][NextSchemaSeq]_vars

(* Record runs: the serving process, the webhook, group, edit and list      *)
(* tools, every argument and every API outcome.                             *)
RecordTools ==
    WebhookTools \cup GroupTools \cup ItemTools \cup ListTools \cup {"get_custom_fields"}

NextRecords ==
    \/ toolPc = "idle" /\ \E tool \in RecordTools : \E args \in ArgsOf(tool) :
            toolInvoked(tool, args, TRUE)
    \/ toolPc = "awaiting" /\ \E o \in ApiOutcomes(toolName) : apiSettles(o, 0)
    \/ resultSent

SpecRecords == InitTools /\ [][NextRecords]_vars

(* Lifecycle runs: the process from its start in every environment, and,    *)
(* once it serves, tool invocations down to the HTTP request.               *)
LifecycleCalls ==
    {[tool |-> "get_contact", args |-> [NoArgs EXCEPT !.contact_id = JStr("1")]],
     [tool |-> "create_file",
      args |-> [NoArgs EXCEPT !.contact_id = JStr("1"), !.file_base64 = JStr("aGk="),
                              !.file_name = JStr("hi.txt")]]}
LifecycleOutcomes ==
    {Rejected(AuthenticationError), Resolved(JObj([FileId |-> JStr("f1")]))}

NextLifecycle ==
    \/ mainStarts
    \/ connectResolves
    \/ \E err \in ConnectErrors : connectRejects(err)
    \/ toolPc = "idle" /\ \E c \in LifecycleCalls : toolInvoked(c.tool, c.args, TRUE)
    \/ clientSends
    \/ toolPc = "awaiting" /\ httpRequest # NoRequest
          /\ \E o \in LifecycleOutcomes : apiSettles(o, 0)
    \/ resultSent

SpecLifecycle == InitStartup /\ [][NextLifecycle]_vars

(* Singleton runs: client.ts freshly loaded, initializeClient and getClient *)
(* called in every order.                                                   *)
InitSingleton ==
    InitSlots(MaxCalls) /\ ToolIdle /\ UploadIdle /\ ProcessStart(ServingEnvironment)

NextSingleton ==
    \/ \E apiKey \in SingletonKeys : initializeClientCalled(apiKey)
    \/ getClientCalled

SpecSingleton == InitSingleton /\ [][NextSingleton]_vars

(* Upload runs: one callWithFile invocation, every file and view. *)
InitUpload ==
    /\ InitSlots(MaxCalls) /\ Serving /\ ToolIdle
    /\ uploadArgs \in UploadInputs
    /\ httpRequest = NoRequest

NextUpload ==
    \/ \E i \in Slots : callWithFileSends(i, MaxRequests)
    \/ \E i \in Slots : \E r \in RateResponses :
            fetchResolves(i, r) /\ UNCHANGED <<startupVars, toolVars, uploadVars>>
    \/ \E i \in Slots : \E e \in FetchErrors :
            fetchRejects(i, e) /\ UNCHANGED <<startupVars, toolVars, uploadVars>>
    \/ \E i \in Slots : jsonSettles(i) /\ UNCHANGED <<startupVars, toolVars, uploadVars>>

SpecUpload == InitUpload /\ [][NextUpload]_vars

----------------------------------------------------------------------------
(* Properties.                                                               *)

Parsed(i) == JsonParse(response[i].body)
Fetched(i) == response[i] # NoResponse
Is2xx(i) == response[i].status \in 200..299
IsAuthStatus(i) == response[i].status \in {401, 403}
HasErrorCodeKey(i) ==
    /\ Parsed(i).ok
    /\ Parsed(i).value.t = "object"
    /\ "ErrorCode" \in DOMAIN Parsed(i).value.v
BodyApiError(i) ==
    ApiError(Parsed(i).value.v.ErrorCode.v, Parsed(i).value.v.ErrorDescription.v)

(* C1: under any interleaving of concurrent invocations of call and          *)
(* callWithFile, no trailing 60-second window ever contains more than 120    *)
(* requests dispatched to the remote API.                                    *)
C1_WindowWithinLimit == InWindow <= RATE_LIMIT

(* C2: every invocation of call and callWithFile acquires a rate-limiter     *)
(* slot before its request is dispatched.  An acquire completes only while   *)
(* the trailing window holds fewer than 120 requests, so no invocation has   *)
(* dispatched a request that was issued with the window already full.        *)
C2_DispatchAfterAcquire == \A i \in Slots : fetches[i] > 0 => ~atLimit[i]

C4_OkStatusErrorBodyRejects ==
    \A i \in Slots :
        (pc[i] = "done" /\ Fetched(i) /\ Is2xx(i) /\ HasErrorCodeKey(i))
            => outcome[i] = Rejected(BodyApiError(i))

C4_Witness ==
    \E i \in Slots :
        /\ pc[i] = "done"
        /\ response[i].status = 200
        /\ response[i].body = BodyError
        /\ outcome[i] = Rejected(ApiError("InvalidParameter", "Name required"))

(* C5: a 401 or 403 response, whatever its body, makes call and              *)
(* callWithFile reject with AuthenticationError, and the body is never read. *)
C5_AuthShortCircuit ==
    \A i \in Slots :
        (Fetched(i) /\ IsAuthStatus(i))
            => /\ pc[i] = "done"
               /\ outcome[i] = Rejected(AuthenticationError)
               /\ ~bodyRead[i]

C5_Witness ==
    \E i \in Slots :
        /\ response[i].status = 401
        /\ response[i].body = BodyObject
        /\ outcome[i] = Rejected(AuthenticationError)
        /\ ~bodyRead[i]

C7_ErrorStatusErrorBody ==
    \A i \in Slots :
        (pc[i] = "done" /\ Fetched(i) /\ ~Is2xx(i) /\ ~IsAuthStatus(i) /\ HasErrorCodeKey(i))
            => outcome[i] = Rejected(BodyApiError(i))

C7_Witness ==
    \E i \in Slots :
        /\ pc[i] = "done"
        /\ response[i].status = 404
        /\ response[i].body = BodyError
        /\ outcome[i] = Rejected(ApiError("InvalidParameter", "Name required"))

(* C8, as claimed: a response that is neither 2xx nor 401/403 and whose body *)
(* does not parse, or parses to a value without ErrorCode, rejects with an   *)
(* ApiError whose code is "HTTP_" followed by the status and whose           *)
(* description is the response's status text.                                *)
C8_GenericHttpError_StatusTextOnly ==
    \A i \in Slots :
        (pc[i] = "done" /\ Fetched(i) /\ ~Is2xx(i) /\ ~IsAuthStatus(i) /\ ~HasErrorCodeKey(i))
            => /\ outcome[i].kind = "rejected"
               /\ outcome[i].error.name = "ApiError"
               /\ outcome[i].error.code = "HTTP_" \o ToString(response[i].status)
               /\ outcome[i].error.message = response[i].statusText

(* C8, amended: ... rejects with an ApiError whose code is "HTTP_" followed  *)
(* by the status and whose message is "HTTP error: ", the status, a space    *)
(* and the response's status text.                                           *)
C8_GenericHttpError ==
    \A i \in Slots :
        (pc[i] = "done" /\ Fetched(i) /\ ~Is2xx(i) /\ ~IsAuthStatus(i) /\ ~HasErrorCodeKey(i))
            => /\ outcome[i].kind = "rejected"
               /\ outcome[i].error.name = "ApiError"
               /\ outcome[i].error.code = "HTTP_" \o ToString(response[i].status)
               /\ outcome[i].error.message =
                      "HTTP error: " \o ToString(response[i].status)
                                     \o " " \o response[i].statusText

C8_Witness ==
    \E i \in Slots :
        /\ pc[i] = "done"
        /\ response[i].status = 500
        /\ response[i].body = BodyHtml
        /\ outcome[i] = Rejected(ApiError("HTTP_500", "HTTP error: 500 Internal Server Error"))

(* C9: each invocation of call or callWithFile makes exactly one HTTP        *)
(* request attempt, whatever the outcome; no failure triggers a second one.  *)
C9_SingleAttempt ==
    \A i \in Slots :
        /\ fetches[i] <= 1
        /\ pc[i] # "idle" => fetches[i] = 1

C9_Witness ==
    \E i \in Slots :
        /\ pc[i] = "done"
        /\ outcome[i].kind = "rejected"
        /\ outcome[i].error.name = "TypeError"
        /\ fetches[i] = 1

(* C10: when fetch rejects, or the body of a 2xx response does not parse,    *)
(* call and callWithFile reject with that very error: it is not turned into  *)
(* an ApiError or AuthenticationError and not swallowed.                     *)
C10_TransportErrorsPropagate ==
    \A i \in Slots :
        pc[i] = "done" =>
            /\ fetchError[i] # NoError => outcome[i] = Rejected(fetchError[i])
            /\ (Fetched(i) /\ Is2xx(i) /\ ~Parsed(i).ok) => outcome[i] = Rejected(Parsed(i).error)

C10_Witness ==
    \E i \in Slots :
        /\ pc[i] = "done"
        /\ response[i].status = 201
        /\ response[i].body = BodyHtml
        /\ outcome[i] = Rejected(SyntaxError)

----------------------------------------------------------------------------
(* Properties of startup.                                                    *)

(* The key each credential source yields, "" when it yields none: the        *)
(* environment variable when set and not empty; a config file when it        *)
(* exists, can be read, is well-formed JSON and carries a non-empty apiKey.  *)
EnvKey(e) == IF e.LACRM_API_KEY.t = "string" THEN e.LACRM_API_KEY.v ELSE ""
FileKey(f) ==
    IF f.exists /\ f.readable /\ f.content.shape = "apiKey" THEN f.content.key ELSE ""
SourceKeys(e) == <<EnvKey(e), FileKey(e.home), FileKey(e.local)>>
FirstNonEmpty(ks) ==
    IF \A i \in DOMAIN ks : ks[i] = "" THEN ""
    ELSE ks[CHOOSE i \in DOMAIN ks : ks[i] # "" /\ \A j \in 1..(i - 1) : ks[j] = ""]
StartupRan == mainPc # "start"

(* C11: loadConfig returns the first non-empty API key in the order          *)
(* environment variable, ~/.lacrm-config.json, ./.lacrm-config.json; a later *)
(* source is not used when an earlier one yields a key, and a missing,       *)
(* unreadable, malformed or apiKey-less file counts as empty.                *)
C11_FirstSourceWins ==
    (StartupRan /\ FirstNonEmpty(SourceKeys(environment)) # "")
        => config = [apiKey |-> FirstNonEmpty(SourceKeys(environment))]

(* The environment variable is empty, the home file is malformed and names   *)
(* one key, the local file yields another, which is the one loaded.          *)
C11_Witness ==
    /\ StartupRan
    /\ environment.LACRM_API_KEY = JStr("")
    /\ environment.home = FileOf([shape |-> "bareValue", key |-> "abc-111"])
    /\ FileKey(environment.local) = "xyz-999"
    /\ config = [apiKey |-> "xyz-999"]

(* C12: when no credential source yields a key, loadConfig throws            *)
(* AuthenticationError, main exits the process with code 1, the client is    *)
(* never initialized, no tool is registered and the transport is never       *)
(* connected.                                                                *)
C12_FatalWithoutKey ==
    (StartupRan /\ FirstNonEmpty(SourceKeys(environment)) = "")
        => /\ mainPc = "exited"
           /\ exitCode = 1
           /\ clientInstance = NoClient
           /\ ~registered
           /\ transport = "none"
           /\ log # <<>>
           /\ log[Len(log)] = LogLine("ERROR", "Failed to start server",
                                      ErrorText(NoApiKeyFound))

(* The process has exited with no key in the environment, a home file that   *)
(* cannot be read and a local file without apiKey.                           *)
C12_Witness ==
    /\ mainPc = "exited"
    /\ exitCode = 1
    /\ environment.LACRM_API_KEY = Undefined
    /\ environment.home = Unreadable
    /\ environment.local = FileOf([shape |-> "emptyObject", key |-> ""])

(* The environments that differ from e only in the value of the API keys.    *)
RenameKey(k, rho) == IF k \in Keys THEN rho[k] ELSE k
RenameFile(f, rho) ==
    IF f.exists /\ f.readable
    THEN FileOf([shape |-> f.content.shape, key |-> RenameKey(f.content.key, rho)])
    ELSE f
KeyVariants(e) ==
    { [e EXCEPT !.LACRM_API_KEY = IF @.t = "string" THEN JStr(RenameKey(@.v, rho)) ELSE @,
                !.home = RenameFile(@, rho),
                !.local = RenameFile(@, rho)] : rho \in [Keys -> Keys] }

(* C14: the API key is never logged: what the logger wrote during startup    *)
(* is the same in every run that differs only in the value of the API key,   *)
(* whether the key comes from the environment or from a config file, one     *)
(* that fails to parse included.                                             *)
C14_LogIndependentOfKey ==
    StartupRan =>
        \A e2 \in KeyVariants(environment) :
            LET l == main_start(e2).log IN
            /\ Len(l) <= Len(log)
            /\ SubSeq(log, 1, Len(l)) = l

----------------------------------------------------------------------------
(* Properties of the tool handlers.                                          *)

HandlerReturned == toolPc = "done" /\ "isError" \in DOMAIN toolResult
IsErrorResult(r) == "isError" \in DOMAIN r /\ r.isError /\ r.text # ""
ApiFailed == toolPc = "done" /\ apiOutcome.kind = "rejected"
ApiSucceeded == toolPc = "done" /\ apiOutcome.kind = "resolved"

(* C13: whatever fails while a handler runs (getClient, the API call, or    *)
(* anything thrown afterwards), the handler returns a result with isError   *)
(* true and a non-empty text; a failed API call never yields a result       *)
(* without isError.                                                         *)
C13_FailuresAreErrorResults ==
    /\ ApiFailed => IsErrorResult(toolResult)
    /\ (ApiSucceeded /\ apiOutcome.value = JNull /\ toolName # "get_contact")
            => IsErrorResult(toolResult)
    /\ \A tool \in Tools : \A readable \in BOOLEAN :
            LET h == handler_start(tool, NoArgs, NoClient, readable) IN
            h.pc = "done" /\ h.calls = <<>> /\ IsErrorResult(h.result)

(* get_contact whose API call was rejected with the API's own error. *)
C13_Witness ==
    /\ toolPc = "done"
    /\ toolName = "get_contact"
    /\ apiOutcome = Rejected(ApiError("InvalidParameter", "Name required"))
    /\ toolResult = ErrorResult("API error (InvalidParameter): Name required")

(* The custom fields a GetCustomFields response lists. *)
ReturnedFields(value) ==
    IF value.t = "array" THEN value.v
    ELSE IF value.t = "object" /\ "Results" \in DOMAIN value.v THEN value.v.Results.v
    ELSE <<>>
SchemaServed == ApiSucceeded /\ toolName \in SchemaTools /\ apiOutcome.value # JNull
IsCustomDescriptor(d) == d.is_custom_field
IsFixedDescriptor(d) == ~d.is_custom_field
SourceRequired(f) == f.IsRequired = JBool(TRUE)
SourceOptional(f) == f.IsRequired # JBool(TRUE)
FieldIds(fs) == [i \in DOMAIN fs |-> <<fs[i].CustomFieldId, fs[i].Type>>]
DescriptorIds(ds) == [i \in DOMAIN ds |-> <<ds[i].field_id, ds[i].type>>]

(* C15: a schema tool lists every entry of the fixed-field table and one    *)
(* descriptor per returned custom field, each in exactly one of             *)
(* required_fields and optional_fields; total_fields is the fixed count     *)
(* plus the custom count and required_count the number of entries whose     *)
(* source required flag is true.                                            *)
C15_SchemaPartition ==
    SchemaServed =>
        LET out == toolResult.json
            fixed == FixedFieldsOf(toolName)
            fields == ReturnedFields(apiOutcome.value)
        IN /\ SelectSeq(out.required_fields, IsFixedDescriptor)
                    = SelectSeq(fixed, IsRequiredField)
           /\ SelectSeq(out.optional_fields, IsFixedDescriptor)
                    = SelectSeq(fixed, IsOptionalField)
           /\ DescriptorIds(SelectSeq(out.required_fields, IsCustomDescriptor))
                    = FieldIds(SelectSeq(fields, SourceRequired))
           /\ DescriptorIds(SelectSeq(out.optional_fields, IsCustomDescriptor))
                    = FieldIds(SelectSeq(fields, SourceOptional))
           /\ Len(out.required_fields) + Len(out.optional_fields) = Len(fixed) + Len(fields)
           /\ out.summary.total_fields = Len(fixed) + Len(fields)
           /\ out.summary.required_count
                    = Len(SelectSeq(fixed, IsRequiredField))
                      + Len(SelectSeq(fields, SourceRequired))

(* get_contact_schema over a required and an optional custom field. *)
C15_Witness ==
    /\ SchemaServed
    /\ toolName = "get_contact_schema"
    /\ apiOutcome.value = JArr(<< CustomFieldDetail("2", "Dropdown", JBool(TRUE), SomeOptions),
                                  CustomFieldDetail("1", "Text", Undefined, Undefined) >>)
    /\ toolResult.json.summary.total_fields = 12
    /\ toolResult.json.summary.required_count = 3
    /\ Len(toolResult.json.optional_fields) = 9

PipelineRequest(request) ==
    /\ request.function = "GetCustomFields"
    /\ "RecordType" \in DOMAIN request.parameters
    /\ request.parameters.RecordType = "Pipeline"
AsksForPipeline ==
    \/ toolName \in {"get_pipeline_item_schema", "get_pipeline_custom_fields"}
    \/ toolName = "get_custom_fields" /\ toolArgs.record_type = JStr("Pipeline")

(* C16: a pipeline schema request without a pipeline identifier fails       *)
(* locally, before any API call is made, and no GetCustomFields request     *)
(* with RecordType Pipeline is sent without the PipelineId filter.          *)
C16_PipelineIdRequired ==
    /\ \A i \in DOMAIN apiCalls :
            PipelineRequest(apiCalls[i]) => "PipelineId" \in DOMAIN apiCalls[i].parameters
    /\ (toolPc # "idle" /\ AsksForPipeline /\ toolArgs.pipeline_id = Undefined)
            => toolPc = "done" /\ apiCalls = <<>> /\ apiOutcome = Pending

(* The descriptors of the custom fields in a tool's output. *)
CustomDescriptors(tool, out) ==
    IF tool \in SchemaTools
    THEN SelectSeq(out.required_fields \o out.optional_fields, IsCustomDescriptor)
    ELSE out.fields
FieldsServed ==
    ApiSucceeded /\ toolName \in SchemaTools \cup CustomFieldTools /\ apiOutcome.value # JNull

(* C18: valid_options is present only in the descriptors of choice-type     *)
(* fields (Dropdown, RadioList, Checkbox), in the schema tools and in       *)
(* get_custom_fields / get_pipeline_custom_fields alike.                    *)
C18_ValidOptionsForChoiceTypesOnly ==
    FieldsServed =>
        /\ \A i \in DOMAIN CustomDescriptors(toolName, toolResult.json) :
                LET d == CustomDescriptors(toolName, toolResult.json)[i] IN
                "valid_options" \in DOMAIN d => d.type \in ChoiceTypes
        /\ \A i \in DOMAIN ReturnedFields(apiOutcome.value) :
                LET f == ReturnedFields(apiOutcome.value)[i] IN
                ("valid_options" \in DOMAIN SchemaFieldOf(f))
                    <=> ("valid_options" \in DOMAIN formatCustomFieldForAI(f))

ClaimedSensitive == {".git", ".env", ".ssh", ".aws", "node_modules"}
PathUpload ==
    /\ toolPc # "idle"
    /\ toolName = "create_file"
    /\ toolArgs.file_base64 = Undefined
    /\ toolArgs.file_path # Undefined
    /\ "isError" \in DOMAIN toolResult \/ toolPc = "awaiting"

(* C20: create_file with a file_path holding a ".." segment or a segment    *)
(* naming a sensitive directory or file returns an isError result, reads no *)
(* file and makes no API call.                                              *)
C20_UnsafePathRefused ==
    (PathUpload /\ \E i \in DOMAIN toolArgs.file_path.segs :
                        \/ toolArgs.file_path.segs[i] = ".."
                        \/ toolArgs.file_path.segs[i] \in ClaimedSensitive)
        => /\ toolPc = "done"
           /\ IsErrorResult(toolResult)
           /\ fileReads = <<>>
           /\ apiCalls = <<>>

----------------------------------------------------------------------------
(* Properties of sequences of schema-tool invocations.                      *)

(* C17 as first stated: the output of a schema tool is a function of the    *)
(* GetCustomFields response and the fixed-field table alone.                *)
C17_OutputOfResponseOnly ==
    \A i, j \in DOMAIN served :
        (served[i].tool = served[j].tool /\ served[i].response = served[j].response)
            => served[i].result = served[j].result

(* C17: every schema-tool invocation issues exactly one GetCustomFields     *)
(* call, and its output is a function of that call's response, the fixed-   *)
(* field table and the invocation's own arguments: it lists the custom      *)
(* fields of this response, whatever earlier invocations returned.          *)
C17_FreshSchema ==
    /\ (toolName \in SchemaTools /\ toolPc \in {"awaiting", "done"} /\ InputValid(toolName, toolArgs))
            => /\ Len(apiCalls) = 1
               /\ apiCalls[1].method = "call"
               /\ apiCalls[1].function = "GetCustomFields"
    /\ \A i, j \in DOMAIN served :
            (served[i].tool = served[j].tool /\ served[i].args = served[j].args
                /\ served[i].response = served[j].response)
                => served[i].result = served[j].result
    /\ \A i \in DOMAIN served :
            IF served[i].response.kind = "rejected"
            THEN IsErrorResult(served[i].result)
            ELSE /\ ~served[i].result.isError
                 /\ served[i].result.json.pipeline_id = served[i].args.pipeline_id
                 /\ DescriptorIds(CustomDescriptors(served[i].tool, served[i].result.json))
                        = FieldIds(SelectSeq(ReturnedFields(served[i].response.value), SourceRequired)
                                   \o SelectSeq(ReturnedFields(served[i].response.value), SourceOptional))

(* The same schema tool served twice, over different responses. *)
C17_Witness ==
    /\ Len(served) = 2
    /\ served[1].tool = "get_pipeline_item_schema"
    /\ served[2].tool = "get_pipeline_item_schema"
    /\ served[1].response = Resolved(JArr(<<>>))
    /\ served[2].response =
            Resolved(JArr(<<CustomFieldDetail("2", "Dropdown", JBool(TRUE), SomeOptions)>>))
    /\ served[2].result.json.summary.custom_fields = 1

----------------------------------------------------------------------------
(* Properties of the upload request.                                        *)

ParseJsonText(text) == text.json
ViewBytes(view) == [k \in 1..view.byteLength |-> view.buffer[view.byteOffset + k]]
UploadSent == httpRequest # NoRequest

----------------------------------------------------------------------------
(* C21: create_webhook with an endpoint_url that does not start with       *)
(* "https://", compared without regard to case, returns an error result    *)
(* and makes no API call; a CreateWebhook request is sent only for an      *)
(* https URL, and carries that URL.                                        *)
IsHttpsUrl(text) ==
    \E scheme \in {h \o t1 \o t2 \o p_ \o s_ \o "://" :
                      h \in {"h", "H"}, t1 \in {"t", "T"}, t2 \in {"t", "T"},
                      p_ \in {"p", "P"}, s_ \in {"s", "S"}} :
        startsWith(text, scheme)
WebhookInvoked == toolName = "create_webhook" /\ toolPc # "idle"

C21_WebhookHttpsOnly ==
    /\ WebhookInvoked /\ ~IsHttpsUrl(toolArgs.endpoint_url.v) =>
          /\ toolPc = "done"
          /\ IsErrorResult(toolResult)
          /\ apiCalls = <<>>
    /\ WebhookInvoked /\ IsHttpsUrl(toolArgs.endpoint_url.v) =>
          /\ Len(apiCalls) = 1
          /\ apiCalls[1].function = "CreateWebhook"
          /\ apiCalls[1].parameters.EndpointUrl = toolArgs.endpoint_url
    /\ \A i \in DOMAIN apiCalls :
          apiCalls[i].function = "CreateWebhook" =>
              IsHttpsUrl(apiCalls[i].parameters.EndpointUrl.v)

C21_Witness ==
    /\ WebhookInvoked
    /\ toolArgs.endpoint_url = JStr("http://a.io/hook")
    /\ toolPc = "done"
    /\ IsErrorResult(toolResult)

(* C22: add_contact_to_group, remove_contact_from_group and                *)
(* get_contacts_in_group return an error result and make no API call when  *)
(* both group_id and group_name are provided and when neither is (provided: *)
(* given with a non-empty value); any request they send carries exactly    *)
(* one of GroupId and GroupName, the one provided.                         *)
Provided(v) == v # Undefined /\ v # JStr("")
GroupInvoked == toolName \in GroupTools /\ toolPc # "idle"

C22_ExactlyOneGroupKey ==
    /\ GroupInvoked /\ (Provided(toolArgs.group_id) <=> Provided(toolArgs.group_name)) =>
          /\ toolPc = "done"
          /\ IsErrorResult(toolResult)
          /\ apiCalls = <<>>
    /\ GroupInvoked =>
          \A i \in DOMAIN apiCalls :
              LET params == apiCalls[i].parameters IN
              /\ ("GroupId" \in DOMAIN params) # ("GroupName" \in DOMAIN params)
              /\ "GroupId" \in DOMAIN params =>
                    Provided(toolArgs.group_id) /\ params.GroupId = toolArgs.group_id
              /\ "GroupName" \in DOMAIN params =>
                    Provided(toolArgs.group_name) /\ params.GroupName = toolArgs.group_name

C22_Witness ==
    /\ toolName = "get_contacts_in_group"
    /\ toolPc = "done"
    /\ Provided(toolArgs.group_id) /\ Provided(toolArgs.group_name)
    /\ IsErrorResult(toolResult)

(* C28: for edit_contact, edit_event and edit_task, the parameters sent to *)
(* the API hold the record identifier and, for each argument the caller    *)
(* supplied, its wire-format key with the value as given; an argument left *)
(* undefined produces no key.  Every key sent is the identifier, the key   *)
(* of a supplied argument or an entry of the supplied custom_fields.       *)
EditSent(tools) == toolName \in tools /\ toolPc # "idle" /\ Len(apiCalls) = 1
SentParameters == apiCalls[1].parameters
CustomKeys(args) ==
    IF "custom_fields" \in DOMAIN args /\ args.custom_fields.t = "object"
    THEN DOMAIN args.custom_fields.v ELSE {}

C28_OnlySuppliedFieldsSent ==
    EditSent({"edit_contact", "edit_event", "edit_task"}) =>
        /\ \A f \in IdentifiersOf(toolName) :
              f.key \in DOMAIN SentParameters /\ SentParameters[f.key] = toolArgs[f.arg]
        /\ \A f \in WireKeys(toolName) :
              toolArgs[f.arg] # Undefined =>
                  f.key \in DOMAIN SentParameters /\ SentParameters[f.key] = toolArgs[f.arg]
        /\ \A f \in WireKeys(toolName) :
              toolArgs[f.arg] = Undefined /\ f.key \notin CustomKeys(toolArgs) =>
                  f.key \notin DOMAIN SentParameters
        /\ DOMAIN SentParameters \subseteq
              {f.key : f \in IdentifiersOf(toolName) \cup WireKeys(toolName)}
              \cup CustomKeys(toolArgs)

(* C29: for edit_contact, create_pipeline_item and edit_pipeline_item, the *)
(* identifying parameters sent to the API (ContactId, PipelineItemId,      *)
(* PipelineId, StatusId) equal the corresponding tool arguments, whatever  *)
(* custom_fields holds.                                                    *)
IdentifyingKeys == {"ContactId", "PipelineItemId", "PipelineId", "StatusId"}

C29_IdentifiersNotReplaced ==
    EditSent({"edit_contact", "create_pipeline_item", "edit_pipeline_item"}) =>
        \A f \in IdentifiersOf(toolName) \cup WireKeys(toolName) :
            f.key \in IdentifyingKeys /\ toolArgs[f.arg] # Undefined =>
                SentParameters[f.key] = toolArgs[f.arg]

(* C30: when the API call of a discovery list tool (get_custom_fields,     *)
(* get_pipelines, get_groups, get_users, get_calendars) resolves with a    *)
(* bare array or with the pagination wrapper { Results, HasMoreResults },  *)
(* the tool output holds every item the API returned.                      *)
ReturnedItems(value) ==
    IF value.t = "array" THEN value.v
    ELSE IF HasKey(value, "Results") /\ HasKey(value, "HasMoreResults")
              /\ value.v.Results.t = "array"
         THEN value.v.Results.v
         ELSE <<>>
IsListResponse(value) ==
    \/ value.t = "array"
    \/ HasKey(value, "Results") /\ HasKey(value, "HasMoreResults")
ListAnswered ==
    /\ toolName \in ListTools \cup {"get_custom_fields"}
    /\ toolPc = "done"
    /\ apiOutcome.kind = "resolved"
    /\ IsListResponse(apiOutcome.value)

C30_ListOutputComplete ==
    ListAnswered =>
        /\ ~IsErrorResult(toolResult)
        /\ toolName \in ListTools =>
              toolResult.json = JArr(ReturnedItems(apiOutcome.value))
        /\ toolName = "get_custom_fields" =>
              Len(toolResult.json.fields) = Len(ReturnedItems(apiOutcome.value))

(* C27: call and callWithFile classify responses identically: for every    *)
(* HTTP status and response body, unparseable bodies included, an           *)
(* invocation of either method settles as both methods' code settles on    *)
(* that response, with the same value or the same error.                   *)
ClassifiedByCall(r) ==
    IF call_fetchResolved(r).pc = "done" THEN call_fetchResolved(r).outcome
    ELSE IF ~ResponseOk(r) THEN call_errorResponse(r, JsonParse(r.body)).outcome
    ELSE call_okResponse(JsonParse(r.body)).outcome
ClassifiedByCallWithFile(r) ==
    IF callWithFile_fetchResolved(r).pc = "done" THEN callWithFile_fetchResolved(r).outcome
    ELSE IF ~ResponseOk(r) THEN callWithFile_errorResponse(r, JsonParse(r.body)).outcome
    ELSE callWithFile_okResponse(JsonParse(r.body)).outcome

C27_SameClassification ==
    \A i \in Slots :
        pc[i] = "done" /\ Fetched(i) =>
            /\ outcome[i] = ClassifiedByCall(response[i])
            /\ outcome[i] = ClassifiedByCallWithFile(response[i])

C27_Witness ==
    \E i \in Slots :
        /\ pc[i] = "done"
        /\ method[i] = "callWithFile"
        /\ response[i].status = 200
        /\ response[i].body = BodyError
        /\ outcome[i] = ClassifiedByCall(response[i])
        /\ outcome[i].kind = "rejected"

(* C23: after startup has completed (main has connected the transport),    *)
(* the three workflow resources lacrm://workflows/overview,                *)
(* lacrm://workflows/contacts and lacrm://workflows/pipeline-items are     *)
(* registered with the server.                                             *)
C23_WorkflowResourcesRegistered ==
    mainPc = "serving" => WorkflowResources \subseteq resources

(* C24: every request call or callWithFile sends carries as its            *)
(* Authorization header the API key loaded at process start, and once the  *)
(* client is initialized no call, callWithFile or tool handler changes its *)
(* key or puts another client in the singleton's place.                    *)
LoadedKey == loadConfig(environment).config.apiKey

C24_CredentialSetOnce ==
    /\ httpRequest # NoRequest =>
          /\ "Authorization" \in DOMAIN httpRequest.headers
          /\ httpRequest.headers.Authorization = LoadedKey
    /\ mainPc \in {"connect", "serving"} =>
          /\ constructed = <<initializeClient(LoadedKey)>>
          /\ clientInstance = constructed[1]
          /\ config.apiKey = LoadedKey

C24_Witness ==
    /\ environment.LACRM_API_KEY = Undefined
    /\ toolName = "get_contact"
    /\ toolPc = "done"
    /\ httpRequest # NoRequest
    /\ httpRequest.headers.Authorization = "xyz-999"

(* C25: getClient throws AuthenticationError when no initializeClient call *)
(* has completed, and after any sequence of initializeClient calls it      *)
(* returns the instance the most recent one created; never null, never an  *)
(* earlier instance.                                                       *)
C25_GetClientReturnsLatest ==
    got.called =>
        IF got.after = 0
        THEN /\ ~got.result.ok
             /\ got.result.error.name = "AuthenticationError"
        ELSE /\ got.result.ok
             /\ got.result.client # NoClient
             /\ got.result.client = constructed[got.after]

C25_Witness ==
    /\ got.called
    /\ got.after = 2
    /\ Len(constructed) = 2
    /\ constructed[1] # constructed[2]
    /\ got.result.ok
    /\ got.result.client = constructed[2]

(* C26: startup runs loadConfig, then initializeClient, then               *)
(* registerAllTools, then the transport's connect, so no tool handler      *)
(* executes while the client singleton is uninitialized; a failure at a    *)
(* step stops the sequence before the later steps run.                     *)
StartupMessages ==
    <<"Configuration loaded", "API client initialized", "Tools registered",
      "LACRM MCP server started">>
IsStartupMessage(line) ==
    line.level = "INFO" /\ \E i \in DOMAIN StartupMessages : line.msg = StartupMessages[i]
StartupSteps == SelectSeq(log, IsStartupMessage)

C26_StartupOrdered ==
    /\ Len(StartupSteps) <= Len(StartupMessages)
    /\ \A i \in DOMAIN StartupSteps : StartupSteps[i].msg = StartupMessages[i]
    /\ toolPc # "idle" => clientInstance # NoClient /\ transport = "connected"
    /\ clientInstance # NoClient => config # NoConfig
    /\ registered => clientInstance # NoClient
    /\ transport # "none" => registered
    /\ mainPc = "serving" => Len(StartupSteps) = Len(StartupMessages)
    /\ mainPc = "exited" /\ config = NoConfig =>
          /\ clientInstance = NoClient /\ ~registered /\ transport = "none"
          /\ StartupSteps = <<>>
    /\ mainPc = "exited" =>
          /\ exitCode = 1
          /\ transport # "connected"
          /\ toolPc = "idle"
          /\ Len(StartupSteps) < Len(StartupMessages)

C26_Witness ==
    /\ mainPc = "serving"
    /\ toolName = "get_contact"
    /\ toolPc = "done"
    /\ ~IsErrorResult(toolResult)
    /\ environment.LACRM_API_KEY = Undefined

====
